---- MODULE Spec2Model ----
(***************************************************************************)
(* Model of the sandboxed execution engine of src/code_environment.py:     *)
(* the supervisor run_user_code_with_timeout, the worker process running   *)
(* _worker_run_code, the multiprocessing.Queue between them (put buffer,   *)
(* feeder thread, OS pipe) and the caller run_code_handler of src/tools.py.*)
(*                                                                         *)
(* Text (str) values are sequences of text fragments: "" is << >>.         *)
(* Time is counted in ticks of one second of the supervisor's wall clock.  *)
(* Message sizes and the pipe capacity are counted in chunks.              *)
(***************************************************************************)
EXTENDS Integers, Sequences, FiniteSets, TLC

\* ------------------------------------------------------------------ bounds
\* largest timeout_sec (in ticks) an invocation is given
MaxTimeout == 2
\* capacity of the OS pipe under the queue, in chunks
PipeCap == 2

\* ------------------------------------------------------- program constants
\* out["stdout"][:10000]
StdoutCap == 10000
\* p.join(1) after terminate()
GraceSec == 1

\* ------------------------------------------------------------------ values
None == "None"

\* values a snippet can leave in the name result: nothing assigned, a number,
\* a list of rows (large when pickled), a module object (cannot be pickled)
Results == {None, "2", "rows", "math"}

\* what a snippet can print
Stdouts == {<< >>, <<"h", "i", "\n">>}

\* str(e) of an exception raised by the snippet: a bare assert has the empty
\* text, a KeyError on a very long key has a large text, and an assert can
\* carry any message the snippet chooses
ErrTexts ==
    {<< >>, <<"boom">>, <<"'xxxx...'">>, <<"no result (crash or empty output)">>}

StoreUnavailableText == <<"unable to open database file">>
PutFailedText == <<"can't start new thread">>

VARIABLES
    timeout_sec,   \* argument timeout_sec, in ticks
    db_ok,         \* whether the store at db_path can be opened read-only
    big_size,      \* pickled size, in chunks, of a large payload
    sup_pc,        \* position of run_user_code_with_timeout
    w_pc,          \* position of the worker process
    w_err,         \* text of the exception caught in _worker_run_code
    w_exit,        \* how the worker process ended
    clock,         \* seconds elapsed in p.join(timeout_sec)
    grace,         \* seconds elapsed in p.join(1)
    term_sent,     \* terminate() was issued
    buffer,        \* Queue._buffer: messages put and not yet taken by the feeder
    wire,          \* the message the feeder thread is writing (at most one)
    fed,           \* chunks of it written to the pipe so far
    feeder,        \* Queue._thread: not started, running, or failed to start
    pipe,          \* chunks in the pipe
    pipe_msg,      \* the message those chunks belong to (at most one)
    recvd,         \* chunks the supervisor has read in q.get()
    outcome,       \* what run_user_code_with_timeout returned (at most one)
    h_pc,          \* position of run_code_handler
    response,      \* what run_code_handler returned (at most one)
    \* history
    puts,          \* number of q.put calls of the worker that enqueued a message
    placed,        \* number of messages the feeder started to write to the pipe
    put_msg,       \* the messages enqueued, in order
    put_in_time,   \* the first put happened before timeout_sec elapsed
    join_wpc,      \* position of the worker when join(timeout_sec) returned
    full_in_time,  \* the feeder filled the pipe before timeout_sec elapsed
    saw_empty,     \* q.empty() returned True with the worker seen dead
    flushed,       \* chunks ever written to the pipe
    snippet_ran,   \* exec(code, env, env) was entered
    snippet_out,   \* out as run_user_code returned it to the worker (at most one)
    \* run_user_code, one call seen from inside the worker
    r_pc,          \* position of run_user_code
    r_db_ok,       \* whether sqlite3.connect can open the store read-only
    r_pragma_ok,   \* whether PRAGMA query_only = ON succeeds in _open_ro_conn
    r_conn,        \* the connection: open, query_only, attached, pending, txn,
                   \* reading, cursor
    r_store,       \* committed contents of the store file
    r_store0,      \* its contents when run_user_code was called
    r_env,         \* the dict env: name -> value
    r_stdout,      \* stdout_io
    r_printed,     \* everything the snippet printed, in order
    r_last,        \* the value last assigned to result, if still bound
    r_out,         \* what run_user_code returned (at most one)
    r_n,           \* statements of the snippet executed so far
    r_wrote,       \* write or DDL statements that succeeded
    r_execs,       \* times exec(code, env, env) was entered
    r_closes,      \* times conn.close() was called by run_user_code
    r_close_ok,    \* whether conn.close() succeeds
    r_err,         \* the error that leaves run_user_code (at most one)
    \* the helpers sql and scalar on one result set
    cur_pc,        \* whether a statement has been executed on the cursor
    cur_cols,      \* names of the columns the statement projects, in order
    cur_rows,      \* rows the store yields for it, in order
    sql_ret,       \* what sql returned (at most one)
    scalar_ret,    \* what scalar returned (at most one)
    \* the worker's cap on stdout
    cap_pc,        \* position of the worker around lines 113-117
    cap_text,      \* what the snippet printed, as run_user_code returns it
    cap_result,    \* the value bound to result when the snippet ended
    cap_msg,       \* the message the worker put (at most one)
    cap_outcome,   \* the outcome the caller was handed (at most one)
    \* what an expression of the snippet evaluates to
    rc_obj,        \* the object the expression evaluated so far denotes
    rc_expr,       \* the expression: a name, then attribute, item and call steps
    \* two invocations of run_user_code_with_timeout on one store
    iso_code,      \* the snippet of each invocation
    iso_pc,        \* position of each invocation
    iso_conn,      \* each worker's store handle
    iso_env,       \* each worker's env: the value bound to result
    iso_at,        \* statements of its snippet each worker has executed
    iso_q,         \* each invocation's queue
    iso_outcome,   \* the outcome each caller received (at most one)
    iso_store,     \* the store file, shared by the invocations
    iso_store0,    \* its contents before the invocations
    \* the args mapping of one invocation
    a_pc,          \* position of the invocation
    a_heap,        \* the mappings that exist, by object
    a_caller,      \* the object the caller passed as args (0 is None)
    a_caller0,     \* the contents of that mapping when the call was made
    a_seen,        \* the object bound to args in the snippet's env
    a_path,        \* how the invocation ended
    \* the params argument of sql and scalar
    p_pc,          \* whether a helper call with params is followed
    p_params,      \* the params argument the snippet passes
    p_sql,         \* what sql passed to conn.execute as parameters (at most one)
    p_scalar,      \* what scalar passed to conn.execute (at most one)
    \* sorting in the search routes
    s_pc,          \* position of the search route
    s_handler,     \* which search handler the route calls
    s_sort,        \* payload.sort: a list of strings, or None
    s_allowed,     \* the allowed sort columns of the handler
    s_order,       \* order_sql as _parse_sort returned it (at most one)
    s_queries,     \* statements executed on the store, in order
    s_status,      \* HTTP status of the response (0: none yet)
    \* limit and offset in the search handlers
    pg_pc,         \* position of the search handler
    pg_handler,    \* which search handler runs
    pg_in,         \* limit and offset of the request, each given or missing
    pg_payload,    \* payload.limit and payload.offset after validation
    pg_local,      \* the handler's locals limit and offset
    pg_bound,      \* limit and offset bound to LIMIT ? OFFSET ?
    pg_echo,       \* limit and offset of the response
    \* the detail handlers
    d_pc,          \* position of the detail handler
    d_handler,     \* which detail handler runs
    d_in,          \* payload.id and payload.name
    d_names,       \* the name of each row of the table looked up, by id
    d_links,       \* rows of pokemon_moves as <<id in that table, id in the other>>
    d_found,       \* the row the lookup returned (at most one)
    d_queries,     \* statements executed on the store, in order
    d_related,     \* the related rows the handler returns
    d_result,      \* how the handler ended
    \* merging duplicate moves
    m_pc,          \* position of the scraper call
    m_op,          \* the function called
    m_schema,      \* the constraints of the store the call depends on
    m_arg,         \* the move id and the name passed
    m_moves,       \* rows of moves
    m_rel,         \* rows of pokemon_moves, in rowid order
    m_moves0,      \* rows of moves when the call started
    m_rel0,        \* rows of pokemon_moves when the call started
    m_log,         \* the UPDATE attempts and merges made, in order
    m_result       \* how the call ended

main_vars == <<timeout_sec, db_ok, big_size, sup_pc, w_pc, w_err, w_exit, clock,
          grace, term_sent, buffer, wire, fed, feeder, pipe, pipe_msg, recvd, outcome,
          h_pc, response, puts, placed, put_msg, put_in_time, join_wpc,
          full_in_time, saw_empty, flushed, snippet_ran, snippet_out>>

run_vars == <<r_pc, r_db_ok, r_pragma_ok, r_conn, r_store, r_store0, r_env,
              r_stdout, r_printed, r_last, r_out, r_n, r_wrote, r_execs,
              r_closes, r_close_ok, r_err>>

query_vars == <<cur_pc, cur_cols, cur_rows, sql_ret, scalar_ret>>

cap_vars == <<cap_pc, cap_text, cap_result, cap_msg, cap_outcome>>

reach_vars == <<rc_obj, rc_expr>>

iso_vars == <<iso_code, iso_pc, iso_conn, iso_env, iso_at, iso_q, iso_outcome,
              iso_store, iso_store0>>

args_vars == <<a_pc, a_heap, a_caller, a_caller0, a_seen, a_path>>

params_vars == <<p_pc, p_params, p_sql, p_scalar>>

sort_vars == <<s_pc, s_handler, s_sort, s_allowed, s_order, s_queries,
              s_status>>

page_vars == <<pg_pc, pg_handler, pg_in, pg_payload, pg_local, pg_bound,
               pg_echo>>

detail_vars == <<d_pc, d_handler, d_in, d_names, d_links, d_found, d_queries,
                 d_related, d_result>>

merge_vars == <<m_pc, m_op, m_schema, m_arg, m_moves, m_rel, m_moves0, m_rel0,
                m_log, m_result>>

\* the state of the parts a specification does not exercise
other_vars == <<run_vars, query_vars, cap_vars, reach_vars, iso_vars,
                args_vars, params_vars, sort_vars, page_vars, detail_vars,
                merge_vars>>
run_rest == <<main_vars, query_vars, cap_vars, reach_vars, iso_vars,
              args_vars, params_vars, sort_vars, page_vars, detail_vars,
              merge_vars>>
query_rest == <<main_vars, run_vars, cap_vars, reach_vars, iso_vars,
                args_vars, params_vars, sort_vars, page_vars, detail_vars,
                merge_vars>>
cap_rest == <<main_vars, run_vars, query_vars, reach_vars, iso_vars,
              args_vars, params_vars, sort_vars, page_vars, detail_vars,
              merge_vars>>
reach_rest == <<main_vars, run_vars, query_vars, cap_vars, iso_vars,
                args_vars, params_vars, sort_vars, page_vars, detail_vars,
                merge_vars>>
iso_rest == <<main_vars, run_vars, query_vars, cap_vars, reach_vars,
              args_vars, params_vars, sort_vars, page_vars, detail_vars,
              merge_vars>>
args_rest == <<main_vars, run_vars, query_vars, cap_vars, reach_vars,
               iso_vars, params_vars, sort_vars, page_vars, detail_vars,
               merge_vars>>
params_rest == <<main_vars, run_vars, query_vars, cap_vars, reach_vars,
                 iso_vars, args_vars, sort_vars, page_vars, detail_vars,
                 merge_vars>>
sort_rest == <<main_vars, run_vars, query_vars, cap_vars, reach_vars,
               iso_vars, args_vars, params_vars, page_vars, detail_vars,
               merge_vars>>
page_rest == <<main_vars, run_vars, query_vars, cap_vars, reach_vars,
               iso_vars, args_vars, params_vars, sort_vars, detail_vars,
               merge_vars>>
detail_rest == <<main_vars, run_vars, query_vars, cap_vars, reach_vars,
                 iso_vars, args_vars, params_vars, sort_vars, page_vars,
                 merge_vars>>
merge_rest == <<main_vars, run_vars, query_vars, cap_vars, reach_vars,
                iso_vars, args_vars, params_vars, sort_vars, page_vars,
                detail_vars>>

vars == <<main_vars, run_vars, query_vars, cap_vars, reach_vars, iso_vars,
          args_vars, params_vars, sort_vars, page_vars, detail_vars,
          merge_vars>>

sup_vars == <<sup_pc, clock, grace, term_sent, recvd, outcome, join_wpc,
              saw_empty>>
w_vars == <<w_pc, w_err, w_exit, snippet_ran>>
q_vars == <<buffer, wire, fed, feeder, pipe, pipe_msg, flushed, placed,
           full_in_time>>
put_vars == <<puts, put_msg, put_in_time, snippet_out>>
in_vars == <<timeout_sec, db_ok, big_size>>
h_vars == <<h_pc, response>>

Min(a, b) == IF a < b THEN a ELSE b

\* ----------------------------------------------------------------- helpers
\* a cap that is never applied
Truncate_Whole(s) == s

\* s[:10000]
Truncate(s) == SubSeq(s, 1, Min(Len(s), StdoutCap))

\* the dict run_user_code returns, with stdout capped by _worker_run_code
Out(res, so) == [stdout |-> Truncate(so), result |-> res]

OkMsg(out) == [ok |-> TRUE, data |-> out]
ErrMsg(text) == [ok |-> FALSE, error |-> text]

\* whether pickle can serialize the message in the feeder thread
Picklable(msg) == ~(msg.ok /\ msg.data.result = "math")

\* pickled size of a message, in chunks
PickledSize(msg) ==
    IF msg.ok
    THEN (IF msg.data.result = "rows" THEN big_size ELSE 1)
    ELSE (IF msg.error = <<"'xxxx...'">> THEN big_size ELSE 1)

WorkerAlive == w_pc \notin {"init", "dead"}

\* ---------------------------------------------------- supervisor outcomes
TimeoutOutcome(t) ==
    [result |-> None, stdout |-> << >>,
     error |-> <<"timeout after ", ToString(t), "s">>]

NoResultOutcome ==
    [result |-> None, stdout |-> << >>,
     error |-> <<"no result (crash or empty output)">>]

\* msg.get("error", "unknown error")
MsgGetError(msg) ==
    IF "error" \in DOMAIN msg THEN msg.error ELSE <<"unknown error">>

\* lines 143-145: the outcome for a message read from the queue
Relay(msg) ==
    IF ~msg.ok
    THEN [result |-> None, stdout |-> << >>, error |-> MsgGetError(msg)]
    ELSE msg.data

\* out.get("error") as a truth value
ErrorTruthy(out) == "error" \in DOMAIN out /\ out.error # << >>

\* run_code_handler: the data it builds from out
Forward(out) ==
    IF ErrorTruthy(out)
    THEN [result |-> out.result, stdout |-> out.stdout, error |-> out.error]
    ELSE [result |-> out.result, stdout |-> out.stdout]

\* ------------------------------------------------------------------- Init
\* run_user_code is not being followed
RunIdle ==
    /\ r_pc = "idle"
    /\ r_db_ok = TRUE
    /\ r_pragma_ok = TRUE
    /\ r_conn = [open |-> FALSE, query_only |-> FALSE, attached |-> FALSE,
                 pending |-> FALSE, txn |-> FALSE, reading |-> FALSE,
                 cursor |-> FALSE]
    /\ r_store = {}
    /\ r_store0 = {}
    /\ r_env = << >>
    /\ r_stdout = << >>
    /\ r_printed = << >>
    /\ r_last = << >>
    /\ r_out = << >>
    /\ r_n = 0
    /\ r_wrote = 0
    /\ r_execs = 0
    /\ r_closes = 0
    /\ r_close_ok = TRUE
    /\ r_err = << >>

\* sql and scalar are not being followed
QueryIdle ==
    /\ cur_pc = "idle"
    /\ cur_cols = << >>
    /\ cur_rows = << >>
    /\ sql_ret = << >>
    /\ scalar_ret = << >>

\* the cap on stdout is not being followed
CapIdle ==
    /\ cap_pc = "idle"
    /\ cap_text = << >>
    /\ cap_result = None
    /\ cap_msg = << >>
    /\ cap_outcome = << >>

\* no expression of the snippet is being followed
ReachIdle ==
    /\ rc_obj = "idle"
    /\ rc_expr = << >>

\* no pair of invocations is being followed
IsoIdle ==
    /\ iso_code = << >>
    /\ iso_pc = << >>
    /\ iso_conn = << >>
    /\ iso_env = << >>
    /\ iso_at = << >>
    /\ iso_q = << >>
    /\ iso_outcome = << >>
    /\ iso_store = {}
    /\ iso_store0 = {}

\* no args mapping is being followed
ArgsIdle ==
    /\ a_pc = "idle"
    /\ a_heap = << >>
    /\ a_caller = 0
    /\ a_caller0 = << >>
    /\ a_seen = 0
    /\ a_path = "none"

\* no params argument is being followed
ParamsIdle ==
    /\ p_pc = "idle"
    /\ p_params = << >>
    /\ p_sql = << >>
    /\ p_scalar = << >>

\* no search request is being followed
SortIdle ==
    /\ s_pc = "idle"
    /\ s_handler = "none"
    /\ s_sort = [given |-> FALSE, list |-> << >>]
    /\ s_allowed = << >>
    /\ s_order = << >>
    /\ s_queries = << >>
    /\ s_status = 0

\* no paging request is being followed
PageIdle ==
    /\ pg_pc = "idle"
    /\ pg_handler = "none"
    /\ pg_in = << >>
    /\ pg_payload = << >>
    /\ pg_local = << >>
    /\ pg_bound = << >>
    /\ pg_echo = << >>

\* no detail request is being followed
DetailIdle ==
    /\ d_pc = "idle"
    /\ d_handler = "none"
    /\ d_in = << >>
    /\ d_names = << >>
    /\ d_links = {}
    /\ d_found = << >>
    /\ d_queries = << >>
    /\ d_related = {}
    /\ d_result = "none"

\* no scraper call is being followed
MergeIdle ==
    /\ m_pc = "idle"
    /\ m_op = "none"
    /\ m_schema = << >>
    /\ m_arg = << >>
    /\ m_moves = {}
    /\ m_rel = << >>
    /\ m_moves0 = {}
    /\ m_rel0 = << >>
    /\ m_log = << >>
    /\ m_result = "none"

OtherIdle ==
    /\ RunIdle
    /\ QueryIdle
    /\ CapIdle
    /\ ReachIdle
    /\ IsoIdle
    /\ ArgsIdle
    /\ ParamsIdle
    /\ SortIdle
    /\ PageIdle
    /\ DetailIdle
    /\ MergeIdle

Init ==
    /\ timeout_sec \in 1..MaxTimeout
    /\ db_ok \in BOOLEAN
    /\ big_size \in {PipeCap, PipeCap + 1}
    /\ sup_pc = "start"
    /\ w_pc = "init"
    /\ w_err = << >>
    /\ w_exit = "none"
    /\ clock = 0
    /\ grace = 0
    /\ term_sent = FALSE
    /\ buffer = << >>
    /\ wire = << >>
    /\ fed = 0
    /\ feeder = "none"
    /\ pipe = 0
    /\ pipe_msg = << >>
    /\ recvd = 0
    /\ outcome = << >>
    /\ h_pc = "called"
    /\ response = << >>
    /\ puts = 0
    /\ placed = 0
    /\ put_msg = << >>
    /\ put_in_time = FALSE
    /\ join_wpc = "none"
    /\ full_in_time = FALSE
    /\ saw_empty = FALSE
    /\ flushed = 0
    /\ snippet_ran = FALSE
    /\ snippet_out = << >>
    /\ OtherIdle

\* -------------------------------------------------------------- supervisor
\* p.start() succeeds: the worker process exists
SupStart ==
    /\ sup_pc = "start"
    /\ sup_pc' = "join"
    /\ w_pc' = "spawned"
    /\ UNCHANGED <<clock, grace, term_sent, recvd, outcome, join_wpc, saw_empty,
                   w_err, w_exit, snippet_ran>>
    /\ UNCHANGED <<q_vars, put_vars, in_vars, other_vars, h_vars>>

\* p.start() raises (the process cannot be created): nothing catches it
SupStartFails ==
    /\ sup_pc = "start"
    /\ sup_pc' = "raised"
    /\ UNCHANGED <<clock, grace, term_sent, recvd, outcome, join_wpc, saw_empty>>
    /\ UNCHANGED <<w_vars, q_vars, put_vars, in_vars, other_vars, h_vars>>

\* one second passes while the supervisor is inside p.join(timeout_sec)
Tick ==
    /\ sup_pc = "join"
    /\ clock < timeout_sec
    /\ clock' = clock + 1
    /\ UNCHANGED <<sup_pc, grace, term_sent, recvd, outcome, join_wpc, saw_empty>>
    /\ UNCHANGED <<w_vars, q_vars, put_vars, in_vars, other_vars, h_vars>>

\* p.join(timeout_sec) returns: the worker is dead or the timeout elapsed
SupJoinReturn ==
    /\ sup_pc = "join"
    /\ (w_pc = "dead" \/ clock = timeout_sec)
    /\ sup_pc' = "is_alive"
    /\ join_wpc' = w_pc
    /\ UNCHANGED <<clock, grace, term_sent, recvd, outcome, saw_empty>>
    /\ UNCHANGED <<w_vars, q_vars, put_vars, in_vars, other_vars, h_vars>>

\* if p.is_alive(): p.terminate()
SupIsAlive ==
    /\ sup_pc = "is_alive"
    /\ IF WorkerAlive
       THEN /\ term_sent' = TRUE
            /\ sup_pc' = "grace"
       ELSE /\ term_sent' = term_sent
            /\ sup_pc' = "empty"
    /\ UNCHANGED <<clock, grace, recvd, outcome, join_wpc, saw_empty>>
    /\ UNCHANGED <<w_vars, q_vars, put_vars, in_vars, other_vars, h_vars>>

\* one second passes while the supervisor is inside p.join(1)
GraceTick ==
    /\ sup_pc = "grace"
    /\ grace < GraceSec
    /\ grace' = grace + 1
    /\ UNCHANGED <<sup_pc, clock, term_sent, recvd, outcome, join_wpc, saw_empty>>
    /\ UNCHANGED <<w_vars, q_vars, put_vars, in_vars, other_vars, h_vars>>

\* a timeout path that still honours a message found on the queue
SupGraceReturn_ReadsQueue ==
    /\ sup_pc = "grace"
    /\ (w_pc = "dead" \/ grace = GraceSec)
    /\ IF pipe > 0 /\ pipe = PickledSize(pipe_msg[1])
       THEN /\ outcome' = <<Relay(pipe_msg[1])>>
            /\ recvd' = pipe
            /\ pipe' = 0
       ELSE /\ outcome' = <<TimeoutOutcome(timeout_sec)>>
            /\ recvd' = recvd
            /\ pipe' = pipe
    /\ sup_pc' = "done"
    /\ UNCHANGED <<clock, grace, term_sent, join_wpc, saw_empty>>
    /\ UNCHANGED <<buffer, wire, fed, feeder, pipe_msg, flushed, placed,
                   full_in_time>>
    /\ UNCHANGED <<w_vars, put_vars, in_vars, other_vars, h_vars>>

\* p.join(1) returns; return the timeout outcome
SupGraceReturn ==
    /\ sup_pc = "grace"
    /\ (w_pc = "dead" \/ grace = GraceSec)
    /\ outcome' = <<TimeoutOutcome(timeout_sec)>>
    /\ sup_pc' = "done"
    /\ UNCHANGED <<clock, grace, term_sent, recvd, join_wpc, saw_empty>>
    /\ UNCHANGED <<w_vars, q_vars, put_vars, in_vars, other_vars, h_vars>>

\* an emptiness test that looks at the put buffer instead of the pipe
QEmpty_BufferOnly == buffer = << >>

\* q.empty(): no data can be read from the pipe
QEmpty == pipe = 0

\* if q.empty(): return the no-result outcome
SupEmpty ==
    /\ sup_pc = "empty"
    /\ IF QEmpty
       THEN /\ outcome' = <<NoResultOutcome>>
            /\ saw_empty' = TRUE
            /\ sup_pc' = "done"
       ELSE /\ outcome' = outcome
            /\ saw_empty' = saw_empty
            /\ sup_pc' = "get"
    /\ UNCHANGED <<clock, grace, term_sent, recvd, join_wpc>>
    /\ UNCHANGED <<w_vars, q_vars, put_vars, in_vars, other_vars, h_vars>>

\* msg = q.get(): read what the pipe holds; return once the whole message is
\* read. With no data to read the call stays blocked.
SupGet ==
    /\ sup_pc = "get"
    /\ pipe > 0
    /\ recvd' = recvd + pipe
    /\ pipe' = 0
    /\ IF recvd + pipe = PickledSize(pipe_msg[1])
       THEN /\ outcome' = <<Relay(pipe_msg[1])>>
            /\ sup_pc' = "done"
       ELSE /\ outcome' = outcome
            /\ sup_pc' = sup_pc
    /\ UNCHANGED <<clock, grace, term_sent, join_wpc, saw_empty>>
    /\ UNCHANGED <<buffer, wire, fed, feeder, pipe_msg, flushed, placed,
                   full_in_time>>
    /\ UNCHANGED <<w_vars, put_vars, in_vars, other_vars, h_vars>>

\* ------------------------------------------------------------------ worker
\* run_user_code: conn = _open_ro_conn(db_path)
WOpenConn ==
    /\ w_pc = "spawned"
    /\ IF db_ok
       THEN /\ w_pc' = "running"
            /\ snippet_ran' = TRUE
            /\ w_err' = w_err
       ELSE /\ w_pc' = "except"
            /\ snippet_ran' = snippet_ran
            /\ w_err' = StoreUnavailableText
    /\ UNCHANGED <<w_exit>>
    /\ UNCHANGED <<sup_vars, q_vars, put_vars, in_vars, other_vars, h_vars>>

\* q.put(msg): the first put has started the feeder thread (_start_thread);
\* the message joins the buffer of the queue
Enqueue(msg) ==
    /\ feeder' = IF feeder = "none" THEN "running" ELSE feeder
    /\ buffer' = Append(buffer, msg)
    /\ puts' = puts + 1
    /\ put_msg' = Append(put_msg, msg)
    /\ put_in_time' = IF puts = 0
                      THEN (sup_pc = "join" /\ clock < timeout_sec)
                      ELSE put_in_time

\* the snippet completes; q.put({"ok": True, "data": out})
WPutOk ==
    /\ w_pc = "running"
    /\ \E res \in Results, so \in Stdouts :
         /\ snippet_out' = <<[stdout |-> so, result |-> res]>>
         /\ Enqueue(OkMsg(Out(res, so)))
    /\ w_pc' = "exiting"
    /\ UNCHANGED <<w_err, w_exit, snippet_ran>>
    /\ UNCHANGED <<wire, fed, pipe, pipe_msg, flushed, placed, full_in_time>>
    /\ UNCHANGED <<sup_vars, in_vars, other_vars, h_vars>>

\* a put that raises after it enqueued its message
WPutOkRaises_AfterEnqueue ==
    /\ w_pc = "running"
    /\ \E res \in Results, so \in Stdouts :
         /\ snippet_out' = <<[stdout |-> so, result |-> res]>>
         /\ Enqueue(OkMsg(Out(res, so)))
    /\ w_pc' = "except"
    /\ w_err' = PutFailedText
    /\ UNCHANGED <<w_exit, snippet_ran>>
    /\ UNCHANGED <<wire, fed, pipe, pipe_msg, flushed, placed, full_in_time>>
    /\ UNCHANGED <<sup_vars, in_vars, other_vars, h_vars>>

\* the snippet completes and q.put raises: _start_thread has set Queue._thread
\* and Thread.start() raises, before put appends the message. No later put
\* starts a feeder again
WPutOkRaises ==
    /\ w_pc = "running"
    /\ feeder = "none"
    /\ feeder' = "failed"
    /\ w_pc' = "except"
    /\ w_err' = PutFailedText
    /\ UNCHANGED <<w_exit, snippet_ran>>
    /\ \E res \in Results, so \in Stdouts :
         snippet_out' = <<[stdout |-> so, result |-> res]>>
    /\ UNCHANGED <<buffer, wire, fed, pipe, pipe_msg, flushed, placed,
                   full_in_time>>
    /\ UNCHANGED <<puts, put_msg, put_in_time>>
    /\ UNCHANGED <<sup_vars, in_vars, other_vars, h_vars>>

\* exec raises an Exception e: except Exception as e, with text str(e)
WSnippetRaises ==
    /\ w_pc = "running"
    /\ \E text \in ErrTexts : w_err' = text
    /\ w_pc' = "except"
    /\ UNCHANGED <<w_exit, snippet_ran>>
    /\ UNCHANGED <<sup_vars, q_vars, put_vars, in_vars, other_vars, h_vars>>

\* q.put({"ok": False, "error": str(e)})
WPutErr ==
    /\ w_pc = "except"
    /\ Enqueue(ErrMsg(w_err))
    /\ UNCHANGED snippet_out
    /\ w_pc' = "exiting"
    /\ UNCHANGED <<w_err, w_exit, snippet_ran>>
    /\ UNCHANGED <<wire, fed, pipe, pipe_msg, flushed, placed, full_in_time>>
    /\ UNCHANGED <<sup_vars, in_vars, other_vars, h_vars>>

\* the put of the except branch is the first put and raises (the feeder thread
\* cannot be started): the exception leaves _worker_run_code
WPutErrRaises ==
    /\ w_pc = "except"
    /\ feeder = "none"
    /\ feeder' = "failed"
    /\ w_pc' = "exiting"
    /\ w_exit' = "crash"
    /\ UNCHANGED <<w_err, snippet_ran>>
    /\ UNCHANGED <<buffer, wire, fed, pipe, pipe_msg, flushed, placed,
                   full_in_time>>
    /\ UNCHANGED <<sup_vars, put_vars, in_vars, other_vars, h_vars>>

\* the feeder thread takes the next message and pickles it; a message that
\* cannot be pickled is dropped
FeedTake ==
    /\ WorkerAlive
    /\ feeder = "running"
    /\ wire = << >>
    /\ buffer # << >>
    /\ buffer' = Tail(buffer)
    /\ IF Picklable(Head(buffer))
       THEN /\ wire' = <<Head(buffer)>>
            /\ placed' = placed + 1
       ELSE /\ wire' = wire
            /\ placed' = placed
    /\ fed' = 0
    /\ UNCHANGED <<feeder, pipe, pipe_msg, flushed, full_in_time>>
    /\ UNCHANGED <<sup_vars, w_vars, put_vars, in_vars, other_vars, h_vars>>

\* the feeder thread writes to the pipe as much of the message as fits
FeedWrite ==
    /\ WorkerAlive
    /\ feeder = "running"
    /\ wire # << >>
    /\ pipe < PipeCap
    /\ LET n == Min(PickledSize(wire[1]) - fed, PipeCap - pipe) IN
         /\ pipe' = pipe + n
         /\ flushed' = flushed + n
         /\ pipe_msg' = wire
         /\ full_in_time' = (full_in_time \/
                (pipe + n = PipeCap /\ sup_pc = "join" /\ clock < timeout_sec))
         /\ IF fed + n = PickledSize(wire[1])
            THEN /\ wire' = << >>
                 /\ fed' = 0
            ELSE /\ wire' = wire
                 /\ fed' = fed + n
    /\ UNCHANGED <<buffer, placed, feeder>>
    /\ UNCHANGED <<sup_vars, w_vars, put_vars, in_vars, other_vars, h_vars>>

\* the process exits once _worker_run_code is over and the feeder thread, if
\* one runs, has flushed the buffer to the pipe (the finalizer that joins it is
\* registered only when the thread started); with no feeder thread the
\* process exits at once and what the buffer holds is lost
WExit ==
    /\ w_pc = "exiting"
    /\ IF feeder = "running" THEN buffer = << >> ELSE TRUE
    /\ wire = << >>
    /\ buffer' = << >>
    /\ w_pc' = "dead"
    /\ w_exit' = IF w_exit = "none" THEN "normal" ELSE w_exit
    /\ UNCHANGED <<w_err, snippet_ran>>
    /\ UNCHANGED <<wire, fed, feeder, pipe, pipe_msg, flushed, placed,
                   full_in_time>>
    /\ UNCHANGED <<sup_vars, put_vars, in_vars, other_vars, h_vars>>

\* the worker process dies with what it has not written: buffer and feeder go
Die(how) ==
    /\ w_pc' = "dead"
    /\ w_exit' = how
    /\ buffer' = << >>
    /\ wire' = << >>
    /\ fed' = 0
    /\ UNCHANGED <<w_err, snippet_ran, feeder, pipe, pipe_msg, flushed, placed,
                   full_in_time>>
    /\ UNCHANGED <<sup_vars, put_vars, in_vars, other_vars, h_vars>>

\* the snippet brings the interpreter down (a fault, or an error that is not
\* an Exception)
WCrash ==
    /\ w_pc = "running"
    /\ Die("crash")

\* the host kills the worker
HostKill ==
    /\ WorkerAlive
    /\ Die("killed")

\* the signal of terminate() ends the worker
WTerminated ==
    /\ WorkerAlive
    /\ term_sent
    /\ Die("terminated")

\* ------------------------------------------------------------------ caller
\* run_code_handler: builds data from the outcome
HandlerReturn ==
    /\ h_pc = "called"
    /\ sup_pc = "done"
    /\ response' = <<Forward(outcome[1])>>
    /\ h_pc' = "done"
    /\ UNCHANGED <<sup_vars, w_vars, q_vars, put_vars, in_vars, other_vars>>

\* run_code_handler: the exception of the supervisor passes through
HandlerRaises ==
    /\ h_pc = "called"
    /\ sup_pc = "raised"
    /\ h_pc' = "raised"
    /\ UNCHANGED <<response>>
    /\ UNCHANGED <<sup_vars, w_vars, q_vars, put_vars, in_vars, other_vars>>

\* ------------------------------------------------------------------- Next
SupStep ==
    \/ SupStart
    \/ SupStartFails
    \/ Tick
    \/ SupJoinReturn
    \/ SupIsAlive
    \/ GraceTick
    \/ SupGraceReturn
    \/ SupEmpty
    \/ SupGet

Next ==
    \/ SupStart
    \/ SupStartFails
    \/ Tick
    \/ SupJoinReturn
    \/ SupIsAlive
    \/ GraceTick
    \/ SupGraceReturn
    \/ SupEmpty
    \/ SupGet
    \/ WOpenConn
    \/ WPutOk
    \/ WPutOkRaises
    \/ WSnippetRaises
    \/ WPutErr
    \/ WPutErrRaises
    \/ FeedTake
    \/ FeedWrite
    \/ WExit
    \/ WCrash
    \/ HostKill
    \/ WTerminated
    \/ HandlerReturn
    \/ HandlerRaises

Spec == Init /\ [][Next]_vars

\* =========================================================== run_user_code
\* the supervisor, worker and queue are not being followed
MainIdle ==
    /\ timeout_sec = 1
    /\ db_ok = TRUE
    /\ big_size = PipeCap
    /\ sup_pc = "off"
    /\ w_pc = "init"
    /\ w_err = << >>
    /\ w_exit = "none"
    /\ clock = 0
    /\ grace = 0
    /\ term_sent = FALSE
    /\ buffer = << >>
    /\ wire = << >>
    /\ fed = 0
    /\ feeder = "none"
    /\ pipe = 0
    /\ pipe_msg = << >>
    /\ recvd = 0
    /\ outcome = << >>
    /\ h_pc = "off"
    /\ response = << >>
    /\ puts = 0
    /\ placed = 0
    /\ put_msg = << >>
    /\ put_in_time = FALSE
    /\ join_wpc = "none"
    /\ full_in_time = FALSE
    /\ saw_empty = FALSE
    /\ flushed = 0
    /\ snippet_ran = FALSE
    /\ snippet_out = << >>

\* largest number of statements of a snippet that are followed
MaxStmts == 4

\* the row a snippet's write statement inserts
NewRow == 3

\* what a print call of the snippet writes
Prints == {<<"h", "i", "\n">>, <<"x", "\n">>}

\* values the snippet assigns to result
Assigned == {None, "2", "rows"}

\* kinds of statement a snippet passes to sql, scalar or conn.execute:
\*   select          a read statement on the store as opened, through sql
\*                   or scalar, or through conn.execute with the cursor
\*                   dropped
\*   select_keep     cur = conn.execute(<read statement>), the cursor kept
\*                   and not read to its end
\*   write_main      INSERT/UPDATE/DELETE on the store as opened
\*   ddl_main        CREATE TABLE / DROP TABLE on the store as opened
\*   create_temp     CREATE TEMP TABLE of a name not used before
\*   qo_off, qo_on   PRAGMA query_only = OFF / ON
\*   attach_rw       ATTACH DATABASE 'file:<store>?mode=rw' AS w
\*   write_attached  INSERT INTO w.<table>
\*   commit          COMMIT
StmtKinds == {"select", "select_keep", "write_main", "ddl_main", "create_temp",
              "qo_off", "qo_on", "attach_rw", "write_attached", "commit"}

WriteKinds == {"write_main", "ddl_main", "create_temp", "write_attached"}

\* the env literal of run_user_code
BuildEnv ==
    [n \in {"__builtins__", "math", "statistics", "json", "re", "conn", "sql",
            "scalar", "args", "result"} |->
        CASE n = "__builtins__" -> "safe_builtins"
          [] n \in {"math", "statistics", "json", "re"} -> "module"
          [] n = "conn" -> "connection"
          [] n \in {"sql", "scalar"} -> "helper"
          [] n = "args" -> "args"
          [] OTHER -> None]

\* env.get(name, default)
EnvGet(env, name, default) ==
    IF name \in DOMAIN env THEN env[name] ELSE default

\* sqlite3.connect(uri, uri=True) with mode=ro, then PRAGMA query_only = ON
\* inside try/except: a failure of the PRAGMA is swallowed
OpenRoConn(pragma_ok) ==
    [open |-> TRUE, query_only |-> pragma_ok, attached |-> FALSE,
     pending |-> FALSE, txn |-> FALSE, reading |-> FALSE,
                 cursor |-> FALSE]

\* whether conn.execute of a statement of this kind raises
StmtFails(c, kind) ==
    CASE kind \in {"write_main", "ddl_main"} -> TRUE
      [] kind = "create_temp" -> c.query_only
      [] kind = "attach_rw" -> c.attached
      [] kind = "write_attached" -> ~c.attached \/ c.query_only
      [] kind = "commit" -> ~c.txn \/ (c.pending /\ (c.reading \/ c.cursor))
      [] OTHER -> FALSE

\* str(e) of the error conn.execute raises for a statement of this kind
StmtErrText(c, kind) ==
    CASE kind = "attach_rw" -> <<"database w is already in use">>
      [] kind = "write_attached" /\ ~c.attached -> <<"no such table: w.items">>
      [] kind = "commit" /\ ~c.txn ->
            <<"cannot commit - no transaction is active">>
      [] kind = "commit" /\ c.txn -> <<"database is locked">>
      [] OTHER -> <<"attempt to write a readonly database">>

\* conn.execute opens a transaction before it runs an INSERT, UPDATE or
\* DELETE it could prepare (the connection has the default isolation_level)
Begins(c, kind) ==
    kind = "write_main" \/ (kind = "write_attached" /\ c.attached)

\* the connection after a statement of this kind failed: the transaction
\* opened for it stays open
ConnAfterFailed(c, kind) ==
    IF Begins(c, kind) THEN [c EXCEPT !.txn = TRUE] ELSE c

\* the connection after a statement of this kind succeeded. A read of the
\* store inside an open transaction keeps its lock on the file until the
\* transaction ends, and a cursor that is kept and not read to its end keeps
\* its lock for as long as it lives, inside a transaction or not; the COMMIT
\* of a write made through the attached schema then cannot lock the same
\* file ("database is locked") and leaves the transaction as it is
ConnAfter(c, kind) ==
    CASE kind = "select" -> [c EXCEPT !.reading = c.txn \/ c.reading]
      [] kind = "select_keep" -> [c EXCEPT !.reading = c.txn \/ c.reading,
                                           !.cursor = TRUE]
      [] kind = "qo_off" -> [c EXCEPT !.query_only = FALSE]
      [] kind = "qo_on" -> [c EXCEPT !.query_only = TRUE]
      [] kind = "attach_rw" -> [c EXCEPT !.attached = TRUE]
      [] kind = "write_attached" -> [c EXCEPT !.pending = TRUE, !.txn = TRUE]
      [] kind = "commit" -> [c EXCEPT !.pending = FALSE, !.txn = FALSE,
                                      !.reading = FALSE]
      [] OTHER -> c

\* the store file after a statement of this kind succeeded
StoreAfter(store, c, kind) ==
    IF kind = "commit" /\ c.pending THEN store \cup {NewRow} ELSE store

\* conn.close(): what was not committed is rolled back
Closed(c) ==
    [c EXCEPT !.open = FALSE, !.pending = FALSE, !.txn = FALSE,
              !.reading = FALSE, !.cursor = FALSE]

\* finally: try: conn.close() except Exception: pass
CloseConn(c, ok) == IF ok THEN Closed(c) ELSE c

\* a call of run_user_code(code, db_path, args)
RunInit ==
    /\ MainIdle
    /\ MergeIdle
    /\ DetailIdle
    /\ PageIdle
    /\ SortIdle
    /\ ParamsIdle
    /\ ArgsIdle
    /\ IsoIdle
    /\ QueryIdle
    /\ CapIdle
    /\ ReachIdle
    /\ r_pc = "open"
    /\ r_db_ok \in BOOLEAN
    /\ r_pragma_ok \in BOOLEAN
    /\ r_store0 \in {{1}, {1, 2}}
    /\ r_store = r_store0
    /\ r_conn = [open |-> FALSE, query_only |-> FALSE, attached |-> FALSE,
                 pending |-> FALSE, txn |-> FALSE, reading |-> FALSE,
                 cursor |-> FALSE]
    /\ r_env = << >>
    /\ r_stdout = << >>
    /\ r_printed = << >>
    /\ r_last = << >>
    /\ r_out = << >>
    /\ r_n = 0
    /\ r_wrote = 0
    /\ r_execs = 0
    /\ r_closes = 0
    /\ r_close_ok \in BOOLEAN
    /\ r_err = << >>

\* conn = _open_ro_conn(db_path); env = {...}; a failing connect raises
RunOpen ==
    /\ r_pc = "open"
    /\ IF r_db_ok
       THEN /\ r_conn' = OpenRoConn(r_pragma_ok)
            /\ r_env' = BuildEnv
            /\ r_pc' = "exec"
       ELSE /\ r_conn' = r_conn
            /\ r_env' = r_env
            /\ r_pc' = "raised"
    /\ UNCHANGED <<r_db_ok, r_pragma_ok, r_store, r_store0, r_stdout, r_printed,
                   r_last, r_out, r_n, r_wrote>>
    /\ r_execs' = IF r_db_ok THEN r_execs + 1 ELSE r_execs
    /\ r_err' = IF r_db_ok THEN r_err ELSE <<"unable to open database file">>
    /\ UNCHANGED <<r_closes, r_close_ok>>
    /\ UNCHANGED run_rest

\* the snippet executes a statement through sql, scalar or conn: it succeeds
RunStmtOk ==
    /\ r_pc = "exec"
    /\ r_n < MaxStmts
    /\ \E kind \in StmtKinds :
         /\ ~StmtFails(r_conn, kind)
         /\ r_conn' = ConnAfter(r_conn, kind)
         /\ r_store' = StoreAfter(r_store, r_conn, kind)
         /\ r_wrote' = IF kind \in WriteKinds THEN r_wrote + 1 ELSE r_wrote
    /\ r_n' = r_n + 1
    /\ UNCHANGED <<r_pc, r_db_ok, r_pragma_ok, r_store0, r_env, r_stdout,
                   r_printed, r_last, r_out>>
    /\ UNCHANGED <<r_execs, r_closes, r_close_ok, r_err>>
    /\ UNCHANGED run_rest

\* the statement fails and the snippet catches the error (try: ... except:)
RunStmtCaught ==
    /\ r_pc = "exec"
    /\ r_n < MaxStmts
    /\ \E kind \in StmtKinds :
         /\ StmtFails(r_conn, kind)
         /\ r_conn' = ConnAfterFailed(r_conn, kind)
    /\ r_n' = r_n + 1
    /\ UNCHANGED <<r_pc, r_db_ok, r_pragma_ok, r_store, r_store0, r_env,
                   r_stdout, r_printed, r_last, r_out, r_wrote>>
    /\ UNCHANGED <<r_execs, r_closes, r_close_ok, r_err>>
    /\ UNCHANGED run_rest

\* the statement fails and the error leaves exec: finally conn.close()
RunStmtRaises ==
    /\ r_pc = "exec"
    /\ r_n < MaxStmts
    /\ \E kind \in StmtKinds :
         /\ StmtFails(r_conn, kind)
         /\ r_conn' = CloseConn(ConnAfterFailed(r_conn, kind), r_close_ok)
         /\ r_err' = StmtErrText(r_conn, kind)
    /\ r_n' = r_n + 1
    /\ r_pc' = "raised"
    /\ UNCHANGED <<r_db_ok, r_pragma_ok, r_store, r_store0, r_env, r_stdout,
                   r_printed, r_last, r_out, r_wrote>>
    /\ r_closes' = r_closes + 1
    /\ UNCHANGED <<r_execs, r_close_ok>>
    /\ UNCHANGED run_rest

\* print(...): redirect_stdout sends the text to stdout_io
RunPrint ==
    /\ r_pc = "exec"
    /\ r_n < MaxStmts
    /\ \E s \in Prints :
         /\ r_stdout' = r_stdout \o s
         /\ r_printed' = r_printed \o s
    /\ r_n' = r_n + 1
    /\ UNCHANGED <<r_pc, r_db_ok, r_pragma_ok, r_conn, r_store, r_store0, r_env,
                   r_last, r_out, r_wrote>>
    /\ UNCHANGED <<r_execs, r_closes, r_close_ok, r_err>>
    /\ UNCHANGED run_rest

\* result = v at the top level of the snippet
RunAssign ==
    /\ r_pc = "exec"
    /\ r_n < MaxStmts
    /\ \E v \in Assigned :
         /\ r_env' = [n \in DOMAIN r_env \cup {"result"} |->
                         IF n = "result" THEN v ELSE r_env[n]]
         /\ r_last' = <<v>>
    /\ r_n' = r_n + 1
    /\ UNCHANGED <<r_pc, r_db_ok, r_pragma_ok, r_conn, r_store, r_store0,
                   r_stdout, r_printed, r_out, r_wrote>>
    /\ UNCHANGED <<r_execs, r_closes, r_close_ok, r_err>>
    /\ UNCHANGED run_rest

\* del result
RunDel ==
    /\ r_pc = "exec"
    /\ r_n < MaxStmts
    /\ "result" \in DOMAIN r_env
    /\ r_env' = [n \in DOMAIN r_env \ {"result"} |-> r_env[n]]
    /\ r_last' = << >>
    /\ r_n' = r_n + 1
    /\ UNCHANGED <<r_pc, r_db_ok, r_pragma_ok, r_conn, r_store, r_store0,
                   r_stdout, r_printed, r_out, r_wrote>>
    /\ UNCHANGED <<r_execs, r_closes, r_close_ok, r_err>>
    /\ UNCHANGED run_rest

\* a run_user_code with no finally clause around exec
RunSnippetRaises_NoFinally ==
    /\ r_pc = "exec"
    /\ r_n < MaxStmts
    /\ r_n' = r_n + 1
    /\ r_pc' = "raised"
    /\ r_err' = <<"boom">>
    /\ UNCHANGED <<r_db_ok, r_pragma_ok, r_conn, r_store, r_store0, r_env,
                   r_stdout, r_printed, r_last, r_out, r_wrote, r_execs,
                   r_closes, r_close_ok>>
    /\ UNCHANGED run_rest

\* the snippet raises (an assert, a del of an unbound name, ...): finally
\* conn.close(), and the error leaves run_user_code
RunSnippetRaises ==
    /\ r_pc = "exec"
    /\ r_n < MaxStmts
    /\ r_n' = r_n + 1
    /\ r_conn' = CloseConn(r_conn, r_close_ok)
    /\ r_pc' = "raised"
    /\ UNCHANGED <<r_db_ok, r_pragma_ok, r_store, r_store0, r_env, r_stdout,
                   r_printed, r_last, r_out, r_wrote>>
    /\ r_closes' = r_closes + 1
    /\ r_err' = <<"boom">>
    /\ UNCHANGED <<r_execs, r_close_ok>>
    /\ UNCHANGED run_rest

\* the snippet ends: finally conn.close(); out = {stdout, result}; return out
RunReturn ==
    /\ r_pc = "exec"
    /\ r_conn' = CloseConn(r_conn, r_close_ok)
    /\ r_out' = <<[stdout |-> r_stdout,
                  result |-> EnvGet(r_env, "result", None)]>>
    /\ r_pc' = "returned"
    /\ UNCHANGED <<r_db_ok, r_pragma_ok, r_store, r_store0, r_env, r_stdout,
                   r_printed, r_last, r_n, r_wrote>>
    /\ r_closes' = r_closes + 1
    /\ UNCHANGED <<r_execs, r_close_ok, r_err>>
    /\ UNCHANGED run_rest

RunNext ==
    \/ RunOpen
    \/ RunStmtOk
    \/ RunStmtCaught
    \/ RunStmtRaises
    \/ RunPrint
    \/ RunAssign
    \/ RunDel
    \/ RunSnippetRaises
    \/ RunReturn

SpecRun == RunInit /\ [][RunNext]_vars

\* ========================================================== sql and scalar
\* largest number of rows of a result set that is followed
MaxRows == 2

\* column lists of the statements followed: one column, several columns,
\* and two columns of the same name (SELECT 1 AS a, 2 AS a)
Projections == {<<"a">>, <<"b">>, <<"a", "b">>, <<"b", "a">>, <<"a", "a">>}

\* values of a column; None is SQL NULL
ColValues == {"v1", "v2", None}

\* the result sets of n rows over the columns cols
RowsOf(cols, n) == [1..n -> [1..Len(cols) -> ColValues]]

\* row[name] of a sqlite3.Row: the first column of that name
RowGet(cols, row, name) ==
    row[CHOOSE i \in DOMAIN cols :
            /\ cols[i] = name
            /\ \A j \in DOMAIN cols : cols[j] = name => i <= j]

\* dict(r) for a sqlite3.Row r
RowDict(cols, row) ==
    [name \in {cols[i] : i \in DOMAIN cols} |-> RowGet(cols, row, name)]

\* a sql that returns the rows last to first
Sql_Reversed(cols, rows) ==
    [i \in 1..Len(rows) |-> RowDict(cols, rows[Len(rows) + 1 - i])]

\* sql: [dict(r) for r in cur.fetchall()]
Sql(cols, rows) == [i \in 1..Len(rows) |-> RowDict(cols, rows[i])]

\* a Python value as scalar returns it: None, a bare column value or a dict
PyNone == [type |-> "NoneType"]
PyBare(v) == IF v = None THEN PyNone ELSE [type |-> "value", value |-> v]
PyDict(d) == [type |-> "dict", value |-> d]

\* a scalar that consults the last row fetched
Scalar_LastRow(cols, rows) ==
    IF rows = << >>
    THEN PyNone
    ELSE IF Len(cols) = 1
         THEN PyBare(rows[Len(rows)][1])
         ELSE PyDict(RowDict(cols, rows[Len(rows)]))

\* scalar: row = cur.fetchone();
\* None if row is None else (row[0] if len(row.keys()) == 1 else dict(row))
Scalar(cols, rows) ==
    IF rows = << >>
    THEN PyNone
    ELSE IF Len(cols) = 1
         THEN PyBare(rows[1][1])
         ELSE PyDict(RowDict(cols, rows[1]))

\* a statement and the result set the store yields for it
QueryInit ==
    /\ MainIdle
    /\ MergeIdle
    /\ DetailIdle
    /\ PageIdle
    /\ SortIdle
    /\ ParamsIdle
    /\ ArgsIdle
    /\ IsoIdle
    /\ RunIdle
    /\ CapIdle
    /\ ReachIdle
    /\ cur_pc = "ready"
    /\ cur_cols \in Projections
    /\ \E n \in 0..MaxRows : cur_rows \in RowsOf(cur_cols, n)
    /\ sql_ret = << >>
    /\ scalar_ret = << >>

\* the snippet calls sql(statement, params)
CallSql ==
    /\ cur_pc = "ready"
    /\ sql_ret = << >>
    /\ sql_ret' = <<Sql(cur_cols, cur_rows)>>
    /\ UNCHANGED <<cur_pc, cur_cols, cur_rows, scalar_ret>>
    /\ UNCHANGED query_rest

\* the snippet calls scalar(statement, params)
CallScalar ==
    /\ cur_pc = "ready"
    /\ scalar_ret = << >>
    /\ scalar_ret' = <<Scalar(cur_cols, cur_rows)>>
    /\ UNCHANGED <<cur_pc, cur_cols, cur_rows, sql_ret>>
    /\ UNCHANGED query_rest

QueryNext ==
    \/ CallSql
    \/ CallScalar

SpecQuery == QueryInit /\ [][QueryNext]_vars

\* ======================================================= the cap on stdout
\* how far below and above the cap the captured lengths followed go
MaxOver == 3

\* a text of n characters, a "b" at every k-th position and "a" elsewhere
Text(n, k) == [i \in 1..n |-> IF i % k = 0 THEN "b" ELSE "a"]

\* values bound to result when the snippet ended: null, a number, a set
\* (pickle serializes it, JSON does not) and a module (neither does)
CapResults == {None, "2", "set", "math"}

\* whether json can serialize the value
JsonSerializable(v) == v \notin {"set", "math"}

\* a worker that sends what the snippet left behind along with the failure
CapPutErr_WithPartial ==
    /\ cap_pc = "ran"
    /\ cap_msg' = <<[ok |-> TRUE,
                     data |-> [stdout |-> Truncate(cap_text),
                               result |-> cap_result,
                               error |-> <<"boom">>]]>>
    /\ cap_pc' = "put"
    /\ UNCHANGED <<cap_text, cap_result, cap_outcome>>
    /\ UNCHANGED cap_rest

\* lengths of the captured output: short ones and those around the cap
Lengths == (0..MaxOver) \cup ((StdoutCap - MaxOver)..(StdoutCap + MaxOver))

\* run_user_code has returned with the captured print output
CapInit ==
    /\ MainIdle
    /\ MergeIdle
    /\ DetailIdle
    /\ PageIdle
    /\ SortIdle
    /\ ParamsIdle
    /\ ArgsIdle
    /\ IsoIdle
    /\ RunIdle
    /\ QueryIdle
    /\ ReachIdle
    /\ cap_pc = "ran"
    /\ \E n \in Lengths, k \in 1..3 : cap_text = Text(n, k)
    /\ cap_result \in CapResults
    /\ cap_msg = << >>
    /\ cap_outcome = << >>

\* lines 116-117: out["stdout"] = out["stdout"][:10000]; q.put(ok message);
\* a message pickle cannot serialize is dropped by the queue's feeder thread
CapPutOk ==
    /\ cap_pc = "ran"
    /\ LET msg == OkMsg(Out(cap_result, cap_text))
       IN cap_msg' = IF Picklable(msg) THEN <<msg>> ELSE << >>
    /\ cap_pc' = "put"
    /\ UNCHANGED <<cap_text, cap_result, cap_outcome>>
    /\ UNCHANGED cap_rest

\* lines 118-119: the snippet raised after printing; the captured output is
\* not part of the failure message
CapPutErr ==
    /\ cap_pc = "ran"
    /\ cap_msg' = <<ErrMsg(<<"boom">>)>>
    /\ cap_pc' = "put"
    /\ UNCHANGED <<cap_text, cap_result, cap_outcome>>
    /\ UNCHANGED cap_rest

\* lines 142-145: the supervisor reads the message and returns its outcome
CapRelay ==
    /\ cap_pc = "put"
    /\ cap_msg # << >>
    /\ cap_outcome' = <<Relay(cap_msg[1])>>
    /\ cap_pc' = "returned"
    /\ UNCHANGED <<cap_text, cap_result, cap_msg>>
    /\ UNCHANGED cap_rest

\* lines 136-141: no message is read; the supervisor synthesizes the outcome
CapNoMessage ==
    /\ cap_pc \in {"ran", "put"}
    /\ \E o \in {TimeoutOutcome(1), NoResultOutcome} : cap_outcome' = <<o>>
    /\ cap_pc' = "returned"
    /\ UNCHANGED <<cap_text, cap_result, cap_msg>>
    /\ UNCHANGED cap_rest

CapNext ==
    \/ CapPutOk
    \/ CapPutErr
    \/ CapRelay
    \/ CapNoMessage

SpecCap == CapInit /\ [][CapNext]_vars

\* ================================== what the snippet's namespace can reach
\* longest expression followed: a name and MaxChain - 1 further steps
MaxChain == 5

\* the callables and the types _safe_builtins enumerates
SafeFunctions ==
    {"print", "abs", "min", "max", "sum", "len", "sorted", "any", "all",
     "round"}
SafeTypes ==
    {"range", "enumerate", "list", "dict", "set", "tuple", "zip", "map",
     "filter"}

\* _safe_builtins(): the mapping the snippet's builtin names resolve through
SafeBuiltins ==
    [n \in SafeFunctions \cup SafeTypes |->
        IF n \in SafeFunctions THEN "builtin function" ELSE "builtin type"]

\* the object each name of the env literal is bound to
EnvObject(n) ==
    CASE n = "__builtins__" -> "safe_builtins"
      [] n \in {"math", "statistics", "json", "re"} -> "module " \o n
      [] n = "conn" -> "connection"
      [] n \in {"sql", "scalar"} -> "helper"
      [] n = "args" -> "args"
      [] OTHER -> None

\* what one step from an object yields in CPython: <<object, kind of step,
\* attribute or key or argument, resulting object>>
Edges ==
    {<<"safe_builtins", "item", n, SafeBuiltins[n]>> : n \in DOMAIN SafeBuiltins}
    \cup
    {
     <<"builtin function", "attr", "__self__", "module builtins">>,
     <<"builtin type", "attr", "__base__", "object">>,
     <<"object", "attr", "__subclasses__", "object.__subclasses__">>,
     <<"object.__subclasses__", "call", "", "loaded classes">>,
     <<"module builtins", "attr", "open", "open">>,
     <<"module builtins", "attr", "__import__", "__import__">>,
     <<"module builtins", "attr", "exec", "exec">>,
     <<"module builtins", "attr", "eval", "eval">>,
     <<"__import__", "call", "socket", "module socket">>,
     <<"__import__", "call", "subprocess", "module subprocess">>,
     <<"__import__", "call", "os", "module os">>,
     <<"module math", "attr", "sqrt", "math function">>,
     <<"math function", "attr", "__self__", "module math">>,
     <<"module statistics", "attr", "sys", "module sys">>,
     <<"module statistics", "attr", "random", "module random">>,
     <<"module random", "attr", "_os", "module os">>,
     <<"module sys", "attr", "modules", "sys.modules">>,
     <<"sys.modules", "item", "os", "module os">>,
     <<"sys.modules", "item", "builtins", "module builtins">>,
     <<"sys.modules", "item", "src.code_environment", "host module">>,
     <<"module os", "attr", "system", "os.system">>,
     <<"module os", "attr", "remove", "os.remove">>,
     <<"module json", "attr", "codecs", "module codecs">>,
     <<"module codecs", "attr", "open", "codecs.open">>,
     <<"module re", "attr", "compile", "re.compile">>,
     <<"re.compile", "attr", "__globals__", "re globals">>,
     <<"re globals", "item", "__builtins__", "builtins dict">>,
     <<"builtins dict", "item", "open", "open">>,
     <<"builtins dict", "item", "__import__", "__import__">>,
     <<"connection", "attr", "execute", "conn.execute">>,
     <<"helper", "attr", "__globals__", "host globals">>,
     <<"host globals", "item", "multiprocessing", "module multiprocessing">>,
     <<"host globals", "item", "io", "module io">>,
     <<"host globals", "item", "_worker_run_code", "host function">>,
     <<"module multiprocessing", "attr", "Process", "Process">>,
     <<"module io", "attr", "open", "open">>,
     <<"args", "attr", "__class__", "builtin type">>,
     <<"None", "attr", "__class__", "NoneType">>,
     <<"NoneType", "attr", "__base__", "object">>
    }

\* the capabilities the sandbox is to withhold, and the objects that give them
Capabilities ==
    [filesystem |-> {"open", "codecs.open", "os.remove"},
     network |-> {"module socket"},
     process |-> {"os.system", "module subprocess", "Process"},
     dynamic_import |-> {"__import__", "exec", "eval", "open"},
     reflection |-> {"host globals", "host module", "host function",
                     "loaded classes"}]

Withheld == UNION {Capabilities[k] : k \in DOMAIN Capabilities}

\* exec(code, env, env) is about to evaluate an expression of the snippet
ReachInit ==
    /\ MainIdle
    /\ MergeIdle
    /\ DetailIdle
    /\ PageIdle
    /\ SortIdle
    /\ ParamsIdle
    /\ ArgsIdle
    /\ IsoIdle
    /\ RunIdle
    /\ QueryIdle
    /\ CapIdle
    /\ rc_obj = "start"
    /\ rc_expr = << >>

\* a name: looked up in env, then in env["__builtins__"]; any other name is
\* a NameError
LookupName ==
    /\ rc_obj = "start"
    /\ \E n \in DOMAIN BuildEnv \cup DOMAIN SafeBuiltins :
          /\ rc_obj' = IF n \in DOMAIN BuildEnv
                       THEN EnvObject(n)
                       ELSE SafeBuiltins[n]
          /\ rc_expr' = <<<<"name", n>>>>
    /\ UNCHANGED reach_rest

\* the step e taken from the object the expression denotes
Follow(e) ==
    /\ rc_obj \notin {"idle", "start"}
    /\ Len(rc_expr) < MaxChain
    /\ e[1] = rc_obj
    /\ rc_obj' = e[4]
    /\ rc_expr' = Append(rc_expr, <<e[2], e[3]>>)

\* obj.label
GetAttr ==
    /\ \E e \in Edges : e[2] = "attr" /\ Follow(e)
    /\ UNCHANGED reach_rest

\* obj[label]
GetItem ==
    /\ \E e \in Edges : e[2] = "item" /\ Follow(e)
    /\ UNCHANGED reach_rest

\* obj(label)
Call ==
    /\ \E e \in Edges : e[2] = "call" /\ Follow(e)
    /\ UNCHANGED reach_rest

ReachNext ==
    \/ LookupName
    \/ GetAttr
    \/ GetItem
    \/ Call

SpecReach == ReachInit /\ [][ReachNext]_vars

\* ================================================ two invocations, one store
\* the invocations followed
Invs == {1, 2}

\* the snippets followed, as the statements they execute in order:
\*   count   result = scalar("SELECT COUNT(*) FROM p")
\*   insert  PRAGMA query_only = OFF; ATTACH the store with mode=rw;
\*           INSERT through the attached schema; COMMIT
\*   update  an INSERT on the store as opened
\*   raise   1/0
Snippets == {"count", "insert", "update", "raise"}

Statements(code) ==
    CASE code = "count" -> <<"select">>
      [] code = "insert" -> <<"qo_off", "attach_rw", "write_attached", "commit">>
      [] code = "update" -> <<"write_main">>
      [] OTHER -> << >>

\* the worker's state after its next statement succeeded on the store st
StmtStep(w, st, kind) ==
    [conn |-> ConnAfter(w.conn, kind),
     result |-> IF kind = "select" THEN ToString(Cardinality(st)) ELSE w.result,
     at |-> w.at + 1]

\* the message the worker puts once the snippet is over (lines 113-119)
WorkerMsg(code, result) ==
    IF code = "raise"
    THEN ErrMsg(<<"division by zero">>)
    ELSE OkMsg(Out(result, << >>))

\* the statement failed: str(e) of the sqlite3 error
StmtErrMsg(c, kind) == ErrMsg(StmtErrText(c, kind))

\* the outcome of an invocation that runs alone on the store st
RECURSIVE AloneFrom(_, _, _)
AloneFrom(code, w, st) ==
    IF w.at = Len(Statements(code))
    THEN Relay(WorkerMsg(code, w.result))
    ELSE LET kind == Statements(code)[w.at + 1] IN
         IF StmtFails(w.conn, kind)
         THEN Relay(StmtErrMsg(w.conn, kind))
         ELSE AloneFrom(code, StmtStep(w, st, kind),
                        StoreAfter(st, w.conn, kind))

Alone(code, st) ==
    AloneFrom(code, [conn |-> OpenRoConn(TRUE), result |-> None, at |-> 0], st)

NoConn ==
    [open |-> FALSE, query_only |-> FALSE, attached |-> FALSE,
     pending |-> FALSE, txn |-> FALSE, reading |-> FALSE,
                 cursor |-> FALSE]

\* two calls of run_user_code_with_timeout are about to be made; at most one
\* of the snippets writes, so SQLite's lock between two writers plays no part
IsoInit ==
    /\ MainIdle
    /\ MergeIdle
    /\ DetailIdle
    /\ PageIdle
    /\ SortIdle
    /\ ParamsIdle
    /\ ArgsIdle
    /\ RunIdle
    /\ QueryIdle
    /\ CapIdle
    /\ ReachIdle
    /\ iso_code \in {c \in [Invs -> Snippets] :
                        Cardinality({i \in Invs : c[i] = "insert"}) <= 1}
    /\ iso_pc = [i \in Invs |-> "call"]
    /\ iso_conn = [i \in Invs |-> NoConn]
    /\ iso_env = [i \in Invs |-> None]
    /\ iso_at = [i \in Invs |-> 0]
    /\ iso_q = [i \in Invs |-> << >>]
    /\ iso_outcome = [i \in Invs |-> << >>]
    /\ iso_store0 \in {{1}, {1, 2}}
    /\ iso_store = iso_store0

\* lines 132-134: q = Queue(); p = Process(...); p.start()
IsoStart ==
    /\ \E i \in Invs :
          /\ iso_pc[i] = "call"
          /\ iso_pc' = [iso_pc EXCEPT ![i] = "started"]
          /\ iso_q' = [iso_q EXCEPT ![i] = << >>]
    /\ UNCHANGED <<iso_code, iso_conn, iso_env, iso_at, iso_outcome, iso_store,
                   iso_store0>>
    /\ UNCHANGED iso_rest

\* lines 65-91 in the worker: its own handle and its own env
IsoOpen ==
    /\ \E i \in Invs :
          /\ iso_pc[i] = "started"
          /\ iso_pc' = [iso_pc EXCEPT ![i] = "exec"]
          /\ iso_conn' = [iso_conn EXCEPT ![i] = OpenRoConn(TRUE)]
          /\ iso_env' = [iso_env EXCEPT ![i] = None]
    /\ UNCHANGED <<iso_code, iso_at, iso_q, iso_outcome, iso_store, iso_store0>>
    /\ UNCHANGED iso_rest

\* the worker's snippet executes its next statement, which succeeds
IsoStmtOk ==
    /\ \E i \in Invs :
          /\ iso_pc[i] = "exec"
          /\ iso_at[i] < Len(Statements(iso_code[i]))
          /\ LET kind == Statements(iso_code[i])[iso_at[i] + 1]
                 w == [conn |-> iso_conn[i], result |-> iso_env[i],
                       at |-> iso_at[i]]
                 n == StmtStep(w, iso_store, kind)
             IN /\ ~StmtFails(iso_conn[i], kind)
                /\ iso_conn' = [iso_conn EXCEPT ![i] = n.conn]
                /\ iso_env' = [iso_env EXCEPT ![i] = n.result]
                /\ iso_at' = [iso_at EXCEPT ![i] = n.at]
                /\ iso_store' = StoreAfter(iso_store, iso_conn[i], kind)
    /\ UNCHANGED <<iso_code, iso_pc, iso_q, iso_outcome, iso_store0>>
    /\ UNCHANGED iso_rest

\* the next statement raises: conn.close(), then q.put of the failure
IsoStmtRaises ==
    /\ \E i \in Invs :
          /\ iso_pc[i] = "exec"
          /\ iso_at[i] < Len(Statements(iso_code[i]))
          /\ StmtFails(iso_conn[i], Statements(iso_code[i])[iso_at[i] + 1])
          /\ iso_conn' = [iso_conn EXCEPT ![i] = Closed(iso_conn[i])]
          /\ iso_q' = [iso_q EXCEPT ![i] = Append(iso_q[i],
                 StmtErrMsg(iso_conn[i],
                            Statements(iso_code[i])[iso_at[i] + 1]))]
          /\ iso_pc' = [iso_pc EXCEPT ![i] = "put"]
    /\ UNCHANGED <<iso_code, iso_env, iso_at, iso_outcome, iso_store, iso_store0>>
    /\ UNCHANGED iso_rest

\* the snippet is over: conn.close(), then q.put of the worker's message
IsoPut ==
    /\ \E i \in Invs :
          /\ iso_pc[i] = "exec"
          /\ iso_at[i] = Len(Statements(iso_code[i]))
          /\ iso_conn' = [iso_conn EXCEPT ![i] = Closed(iso_conn[i])]
          /\ iso_q' = [iso_q EXCEPT ![i] =
                          Append(iso_q[i], WorkerMsg(iso_code[i], iso_env[i]))]
          /\ iso_pc' = [iso_pc EXCEPT ![i] = "put"]
    /\ UNCHANGED <<iso_code, iso_env, iso_at, iso_outcome, iso_store, iso_store0>>
    /\ UNCHANGED iso_rest

\* lines 135-145 when the worker exited in time: msg = q.get(), relayed
IsoReturn ==
    /\ \E i \in Invs :
          /\ iso_pc[i] = "put"
          /\ iso_outcome' = [iso_outcome EXCEPT ![i] = <<Relay(Head(iso_q[i]))>>]
          /\ iso_q' = [iso_q EXCEPT ![i] = Tail(iso_q[i])]
          /\ iso_pc' = [iso_pc EXCEPT ![i] = "returned"]
    /\ UNCHANGED <<iso_code, iso_conn, iso_env, iso_at, iso_store, iso_store0>>
    /\ UNCHANGED iso_rest

IsoNext ==
    \/ IsoStart
    \/ IsoOpen
    \/ IsoStmtOk
    \/ IsoStmtRaises
    \/ IsoPut
    \/ IsoReturn

SpecIso == IsoInit /\ [][IsoNext]_vars

\* ========================================================= the args mapping
ArgKeys == {"k", "n"}
ArgVals == {"1", "2"}

\* the mappings a caller passes or a snippet builds
ArgMaps == UNION {[ks -> ArgVals] : ks \in SUBSET ArgKeys}

\* a new object holding the mapping m
Alloc(heap, m) ==
    [o \in DOMAIN heap \cup {Len(heap) + 1} |->
        IF o \in DOMAIN heap THEN heap[o] ELSE m]

\* args or {}: the object itself when it is a non-empty mapping, else 0 to
\* stand for a new empty mapping to be allocated
OrEmpty(heap, ref) ==
    IF ref # 0 /\ DOMAIN heap[ref] # {} THEN ref ELSE 0

\* a call run_user_code_with_timeout(code, db_path, args, timeout_sec)
ArgsInit ==
    /\ MainIdle
    /\ MergeIdle
    /\ DetailIdle
    /\ PageIdle
    /\ SortIdle
    /\ ParamsIdle
    /\ RunIdle
    /\ QueryIdle
    /\ CapIdle
    /\ ReachIdle
    /\ IsoIdle
    /\ a_pc = "call"
    /\ \/ /\ a_caller = 0
          /\ a_heap = << >>
          /\ a_caller0 = << >>
       \/ /\ a_caller = 1
          /\ a_caller0 \in ArgMaps
          /\ a_heap = <<a_caller0>>
    /\ a_seen = 0
    /\ a_path = "none"

\* a worker that runs in the caller's process and address space
ArgsStart_SameProcess ==
    /\ a_pc = "call"
    /\ a_pc' = "exec"
    /\ IF OrEmpty(a_heap, a_caller) # 0
       THEN /\ a_seen' = a_caller
            /\ a_heap' = a_heap
       ELSE /\ a_heap' = Alloc(a_heap, << >>)
            /\ a_seen' = Len(a_heap) + 1
    /\ UNCHANGED <<a_caller, a_caller0, a_path>>
    /\ UNCHANGED args_rest

\* lines 133-134 and 113, 65: Process(args=(code, db_path, args, q)).start()
\* hands the worker process its own copy of args; there args or {} keeps a
\* non-empty mapping and replaces None or an empty one by a new mapping
ArgsStart ==
    /\ a_pc = "call"
    /\ a_pc' = "exec"
    /\ LET copied == IF a_caller = 0 THEN a_heap
                     ELSE Alloc(a_heap, a_heap[a_caller])
           ref == IF a_caller = 0 THEN 0 ELSE Len(copied)
       IN IF OrEmpty(copied, ref) # 0
          THEN /\ a_heap' = copied
               /\ a_seen' = ref
          ELSE /\ a_heap' = Alloc(copied, << >>)
               /\ a_seen' = Len(copied) + 1
    /\ UNCHANGED <<a_caller, a_caller0, a_path>>
    /\ UNCHANGED args_rest

\* the snippet executes args[k] = v
ArgsSnippetSet ==
    /\ a_pc = "exec"
    /\ \E k \in ArgKeys, v \in ArgVals :
          a_heap' = [a_heap EXCEPT ![a_seen] =
                        [x \in DOMAIN a_heap[a_seen] \cup {k} |->
                            IF x = k THEN v ELSE a_heap[a_seen][x]]]
    /\ UNCHANGED <<a_pc, a_caller, a_caller0, a_seen, a_path>>
    /\ UNCHANGED args_rest

\* the snippet executes del args[k]
ArgsSnippetDel ==
    /\ a_pc = "exec"
    /\ \E k \in DOMAIN a_heap[a_seen] :
          a_heap' = [a_heap EXCEPT ![a_seen] =
                        [x \in DOMAIN a_heap[a_seen] \ {k} |-> a_heap[a_seen][x]]]
    /\ UNCHANGED <<a_pc, a_caller, a_caller0, a_seen, a_path>>
    /\ UNCHANGED args_rest

\* lines 135-145: the supervisor returns on one of its four paths
ArgsReturn ==
    /\ a_pc = "exec"
    /\ a_pc' = "returned"
    /\ a_path' \in {"success", "snippet error", "timeout", "crash"}
    /\ UNCHANGED <<a_heap, a_caller, a_caller0, a_seen>>
    /\ UNCHANGED args_rest

ArgsNext ==
    \/ ArgsStart
    \/ ArgsSnippetSet
    \/ ArgsSnippetDel
    \/ ArgsReturn

SpecArgs == ArgsInit /\ [][ArgsNext]_vars

\* ================================================ params of sql and scalar
\* longest parameter sequence followed
MaxParams == 2

\* values a snippet passes as one parameter: numbers, a string, None
ParamAtoms ==
    {[type |-> "int", value |-> "1"], [type |-> "int", value |-> "2"],
     [type |-> "str", value |-> "ab"], PyNone}

ParamSeqs == UNION {[1..n -> ParamAtoms] : n \in 0..MaxParams}

\* the params arguments followed: lists, tuples (the default is the empty
\* tuple), single values and mappings
ParamValues ==
    {[type |-> t, items |-> q] : t \in {"list", "tuple"}, q \in ParamSeqs}
    \cup ParamAtoms
    \cup {[type |-> "dict", value |-> [k \in {"id"} |-> a]] : a \in ParamAtoms}

\* a normalisation that turns every sequence into a tuple
Normalise_ToTuple(p) ==
    IF p.type \in {"list", "tuple"}
    THEN [type |-> "tuple", items |-> p.items]
    ELSE [type |-> "tuple", items |-> <<p>>]

\* params if isinstance(params, (list, tuple)) else (params,)
Normalise(p) ==
    IF p.type \in {"list", "tuple"}
    THEN p
    ELSE [type |-> "tuple", items |-> <<p>>]

\* the snippet is about to call the helpers with a statement and params
ParamsInit ==
    /\ MainIdle
    /\ MergeIdle
    /\ DetailIdle
    /\ PageIdle
    /\ SortIdle
    /\ RunIdle
    /\ QueryIdle
    /\ CapIdle
    /\ ReachIdle
    /\ IsoIdle
    /\ ArgsIdle
    /\ p_pc = "ready"
    /\ p_params \in ParamValues
    /\ p_sql = << >>
    /\ p_scalar = << >>

\* line 69: sql calls conn.execute(query, <normalised params>)
SqlExecute ==
    /\ p_pc = "ready"
    /\ p_sql = << >>
    /\ p_sql' = <<Normalise(p_params)>>
    /\ UNCHANGED <<p_pc, p_params, p_scalar>>
    /\ UNCHANGED params_rest

\* line 73: scalar calls conn.execute(query, <normalised params>)
ScalarExecute ==
    /\ p_pc = "ready"
    /\ p_scalar = << >>
    /\ p_scalar' = <<Normalise(p_params)>>
    /\ UNCHANGED <<p_pc, p_params, p_sql>>
    /\ UNCHANGED params_rest

ParamsNext ==
    \/ SqlExecute
    \/ ScalarExecute

SpecParams == ParamsInit /\ [][ParamsNext]_vars

\* ==================================================== sorting in searches
\* longest sort list followed
MaxSort == 2

\* a sort string is the sequence of its pieces, a leading "-" being a piece:
\* "name", "-name", "dps", "-dps", "-", "--name", and keys that are not
\* columns of the table
RawSorts ==
    {<<"name">>, <<"-", "name">>, <<"dps">>, <<"-", "dps">>, <<"-">>,
     <<"-", "-", "name">>, <<"id; DROP TABLE moves">>}

\* the allowed lists followed (search_pokemons keeps the candidates that are
\* columns of the table)
AllowedLists == {<< <<"name">>, <<"dps">> >>, << <<"name">> >>}

Range(q) == {q[i] : i \in DOMAIN q}

\* raw.startswith("-")
StartsWithDash(raw) == raw # << >> /\ raw[1] = "-"

\* the loop of _parse_sort over sort_list[i..], order_clauses collected so far
RECURSIVE ParseLoop(_, _, _, _)
ParseLoop(sort_list, i, allowed_set, order_clauses) ==
    IF i > Len(sort_list)
    THEN [raised |-> FALSE, order_clauses |-> order_clauses]
    ELSE LET raw == sort_list[i]
             direction == IF StartsWithDash(raw) THEN "DESC" ELSE "ASC"
             key == IF StartsWithDash(raw) THEN Tail(raw) ELSE raw
         IN IF key \notin allowed_set
            THEN [raised |-> TRUE, key |-> key]
            ELSE ParseLoop(sort_list, i + 1, allowed_set,
                           Append(order_clauses, key \o <<" ", direction>>))

\* ", ".join(parts)
RECURSIVE Join(_)
Join(parts) ==
    IF parts = << >> THEN << >>
    ELSE IF Len(parts) = 1 THEN parts[1]
    ELSE parts[1] \o <<", ">> \o Join(Tail(parts))

\* a _parse_sort that takes every key as it comes
ParseSort_Unchecked(sort, allowed) ==
    IF ~sort.given \/ sort.list = << >>
    THEN [raised |-> FALSE, value |-> << >>]
    ELSE LET r == ParseLoop(sort.list, 1,
                            Range(allowed) \cup {Tail(x) : x \in RawSorts}
                                           \cup RawSorts, << >>)
         IN [raised |-> FALSE,
             value |-> <<" ORDER BY ">> \o Join(r.order_clauses)]

\* _parse_sort(sort_list, allowed): its return value, or the ValueError
ParseSort(sort, allowed) ==
    IF ~sort.given \/ sort.list = << >>
    THEN [raised |-> FALSE, value |-> << >>]
    ELSE LET r == ParseLoop(sort.list, 1, Range(allowed), << >>)
         IN IF r.raised
            THEN [raised |-> TRUE, key |-> r.key]
            ELSE [raised |-> FALSE,
                  value |-> IF r.order_clauses = << >> THEN << >>
                            ELSE <<" ORDER BY ">> \o Join(r.order_clauses)]

\* a POST to /search_pokemons or /search_moves
SortInit ==
    /\ MainIdle
    /\ MergeIdle
    /\ DetailIdle
    /\ PageIdle
    /\ RunIdle
    /\ QueryIdle
    /\ CapIdle
    /\ ReachIdle
    /\ IsoIdle
    /\ ArgsIdle
    /\ ParamsIdle
    /\ s_pc = "start"
    /\ s_handler \in {"search_pokemons", "search_moves"}
    /\ \/ s_sort = [given |-> FALSE, list |-> << >>]
       \/ \E n \in 0..MaxSort :
             \E l \in [1..n -> RawSorts] : s_sort = [given |-> TRUE, list |-> l]
    /\ s_allowed \in AllowedLists
    /\ s_order = << >>
    /\ s_queries = << >>
    /\ s_status = 0

\* detect_json1_enabled(conn): SELECT json(?), and PRAGMA compile_options
\* when that raises
DetectJson1(json1) ==
    IF json1 THEN <<"SELECT json(?)">>
    ELSE <<"SELECT json(?)", "compile_options">>

\* search_pokemons_handler first probes for JSON1; both handlers then look up
\* the table's columns: PRAGMA table_info(...)
SearchColumns ==
    /\ s_pc = "start"
    /\ \E json1 \in BOOLEAN :
          s_queries' = s_queries
                       \o (IF s_handler = "search_pokemons"
                           THEN DetectJson1(json1) ELSE << >>)
                       \o <<"table_info">>
    /\ s_pc' = "parse"
    /\ UNCHANGED <<s_handler, s_sort, s_allowed, s_order, s_status>>
    /\ UNCHANGED sort_rest

\* order_sql = _parse_sort(payload.sort, allowed_sort) if payload.sort else ""
SearchParseSort ==
    /\ s_pc = "parse"
    /\ ~ParseSort(s_sort, s_allowed).raised
    /\ s_order' = <<ParseSort(s_sort, s_allowed).value>>
    /\ s_pc' = "query"
    /\ UNCHANGED <<s_handler, s_sort, s_allowed, s_queries, s_status>>
    /\ UNCHANGED sort_rest

\* _parse_sort raises ValueError; the route turns it into HTTP 400
SearchSortRejected ==
    /\ s_pc = "parse"
    /\ ParseSort(s_sort, s_allowed).raised
    /\ s_pc' = "done"
    /\ s_status' = 400
    /\ UNCHANGED <<s_handler, s_sort, s_allowed, s_order, s_queries>>
    /\ UNCHANGED sort_rest

\* execute_query(conn, "SELECT ... {where_sql}{order_sql} LIMIT ? OFFSET ?")
SearchQuery ==
    /\ s_pc = "query"
    /\ s_queries' = Append(s_queries, "search")
    /\ s_pc' = "done"
    /\ s_status' = 200
    /\ UNCHANGED <<s_handler, s_sort, s_allowed, s_order>>
    /\ UNCHANGED sort_rest

SortNext ==
    \/ SearchColumns
    \/ SearchParseSort
    \/ SearchSortRejected
    \/ SearchQuery

SpecSort == SortInit /\ [][SortNext]_vars

\* ======================================================= limit and offset
\* largest magnitude of the small limits and offsets followed
MaxPage == 2

\* the default limit: Field(10, ...) and `payload.limit or 10`
DefaultLimit == 10

\* a field of the request: missing, or an integer
Missing == [given |-> FALSE]
Given(n) == [given |-> TRUE, value |-> n]

PageInputs ==
    {Missing} \cup {Given(n) : n \in (-MaxPage..MaxPage) \cup
                                    {DefaultLimit - 1, DefaultLimit,
                                     DefaultLimit + 1}}

\* validation of the input model: a missing field takes its default
Validated(field, default) == IF field.given THEN field.value ELSE default

Max(a, b) == IF a > b THEN a ELSE b

\* a clamp without the floor at 0
Clamp_NoFloor(v, default) == IF v = 0 THEN default ELSE v

\* max(0, int(v or default)) for an integer v
Clamp(v, default) == Max(0, IF v = 0 THEN default ELSE v)

\* a search request with its limit and offset fields
PageInit ==
    /\ MainIdle
    /\ MergeIdle
    /\ DetailIdle
    /\ RunIdle
    /\ QueryIdle
    /\ CapIdle
    /\ ReachIdle
    /\ IsoIdle
    /\ ArgsIdle
    /\ ParamsIdle
    /\ SortIdle
    /\ pg_pc = "request"
    /\ pg_handler \in {"search_pokemons", "search_moves"}
    /\ pg_in \in [limit : PageInputs, offset : PageInputs]
    /\ pg_payload = << >>
    /\ pg_local = << >>
    /\ pg_bound = << >>
    /\ pg_echo = << >>

\* the input model fills in limit = 10 and offset = 0 where they are missing
PageValidate ==
    /\ pg_pc = "request"
    /\ pg_payload' = <<[limit |-> Validated(pg_in.limit, DefaultLimit),
                        offset |-> Validated(pg_in.offset, 0)]>>
    /\ pg_pc' = "handler"
    /\ UNCHANGED <<pg_handler, pg_in, pg_local, pg_bound, pg_echo>>
    /\ UNCHANGED page_rest

\* limit = max(0, int(payload.limit or 10));
\* offset = max(0, int(payload.offset or 0))
PageClamp ==
    /\ pg_pc = "handler"
    /\ pg_local' = <<[limit |-> Clamp(pg_payload[1].limit, DefaultLimit),
                      offset |-> Clamp(pg_payload[1].offset, 0)]>>
    /\ pg_pc' = "clamped"
    /\ UNCHANGED <<pg_handler, pg_in, pg_payload, pg_bound, pg_echo>>
    /\ UNCHANGED page_rest

\* params.extend([limit, offset]); execute_query(conn, sql, params)
PageQuery ==
    /\ pg_pc = "clamped"
    /\ pg_bound' = <<pg_local[1]>>
    /\ pg_pc' = "queried"
    /\ UNCHANGED <<pg_handler, pg_in, pg_payload, pg_local, pg_echo>>
    /\ UNCHANGED page_rest

\* return {"items": items, "limit": limit, "offset": offset}
PageRespond ==
    /\ pg_pc = "queried"
    /\ pg_echo' = <<pg_local[1]>>
    /\ pg_pc' = "done"
    /\ UNCHANGED <<pg_handler, pg_in, pg_payload, pg_local, pg_bound>>
    /\ UNCHANGED page_rest

PageNext ==
    \/ PageValidate
    \/ PageClamp
    \/ PageQuery
    \/ PageRespond

SpecPage == PageInit /\ [][PageNext]_vars

\* ===================================================== the detail handlers
\* ids 1..MaxId exist in the table looked up
MaxId == 2

RowNames == {"a", "b"}

\* not payload.id / not payload.name: None, 0 and "" count as not given
FalsyId(field) == IF field.given THEN field.value = 0 ELSE TRUE

FalsyName(field) == IF field.given THEN field.value = "" ELSE TRUE

\* execute_one(conn, "SELECT ... WHERE id = ?"): the row of that id, if any
ById(names, id) ==
    IF id \in DOMAIN names THEN <<[id |-> id, name |-> names[id]]>> ELSE << >>

\* execute_one(conn, "SELECT ... WHERE name = ?"): the first row of that name
ByName(names, name) ==
    IF \E i \in DOMAIN names : names[i] = name
    THEN LET i == CHOOSE i \in DOMAIN names :
                      /\ names[i] = name
                      /\ \A j \in DOMAIN names : names[j] = name => i <= j
         IN <<[id |-> i, name |-> name]>>
    ELSE << >>

\* a GetPokemonDetailInput or GetMoveDetailInput and the store's contents
DetailInit ==
    /\ MainIdle
    /\ MergeIdle
    /\ RunIdle
    /\ QueryIdle
    /\ CapIdle
    /\ ReachIdle
    /\ IsoIdle
    /\ ArgsIdle
    /\ ParamsIdle
    /\ SortIdle
    /\ PageIdle
    /\ d_pc = "check"
    /\ d_handler \in {"get_pokemon_detail", "get_move_detail"}
    /\ d_in \in [id : {Missing} \cup {Given(n) : n \in 0..(MaxId + 1)},
                 name : {Missing} \cup {Given(s) : s \in RowNames \cup {"", "zz"}}]
    /\ d_names \in [1..MaxId -> RowNames]
    /\ d_links \in SUBSET {<<1, 1>>, <<1, 2>>, <<2, 1>>}
    /\ d_found = << >>
    /\ d_queries = << >>
    /\ d_related = {}
    /\ d_result = "none"

\* if not payload.id and not payload.name: raise ValueError
DetailRejected ==
    /\ d_pc = "check"
    /\ FalsyId(d_in.id) /\ FalsyName(d_in.name)
    /\ d_pc' = "done"
    /\ d_result' = "ValueError"
    /\ UNCHANGED <<d_handler, d_in, d_names, d_links, d_found, d_queries,
                   d_related>>
    /\ UNCHANGED detail_rest

\* the lookup by id if payload.id else by name; get_move_detail_handler reads
\* the columns of moves before it
DetailLookup ==
    /\ d_pc = "check"
    /\ ~(FalsyId(d_in.id) /\ FalsyName(d_in.name))
    /\ LET q == IF ~FalsyId(d_in.id)
                THEN [by |-> "id", id |-> d_in.id.value]
                ELSE [by |-> "name", name |-> d_in.name.value]
       IN /\ d_queries' = IF d_handler = "get_move_detail"
                          THEN <<[by |-> "table_info"], q>>
                          ELSE <<q>>
          /\ d_found' = IF q.by = "id"
                        THEN ById(d_names, q.id)
                        ELSE ByName(d_names, q.name)
    /\ d_pc' = "looked up"
    /\ UNCHANGED <<d_handler, d_in, d_names, d_links, d_related, d_result>>
    /\ UNCHANGED detail_rest

\* if not pokemon: raise HTTPException(status_code=404)
DetailNotFound ==
    /\ d_pc = "looked up"
    /\ d_found = << >>
    /\ d_pc' = "done"
    /\ d_result' = "404"
    /\ UNCHANGED <<d_handler, d_in, d_names, d_links, d_found, d_queries,
                   d_related>>
    /\ UNCHANGED detail_rest

\* a handler that returns every row of pokemon_moves
DetailRelated_Unfiltered ==
    /\ d_pc = "looked up"
    /\ d_found # << >>
    /\ d_queries' = d_queries
                      \o (IF d_handler = "get_pokemon_detail"
                          THEN <<[by |-> "table_info"]>> ELSE << >>)
                      \o <<[by |-> "related", id |-> d_found[1].id]>>
    /\ d_related' = d_links
    /\ d_pc' = "done"
    /\ d_result' = "ok"
    /\ UNCHANGED <<d_handler, d_in, d_names, d_links, d_found>>
    /\ UNCHANGED detail_rest

\* rows = execute_query(conn, "... FROM pokemon_moves pm JOIN ... WHERE
\* pm.pokemon_id = ?" or "pm.move_id = ?", [found["id"]]); return them.
\* get_pokemon_detail_handler reads the columns of moves before it
DetailRelated ==
    /\ d_pc = "looked up"
    /\ d_found # << >>
    /\ d_queries' = d_queries
                      \o (IF d_handler = "get_pokemon_detail"
                          THEN <<[by |-> "table_info"]>> ELSE << >>)
                      \o <<[by |-> "related", id |-> d_found[1].id]>>
    /\ d_related' = {l \in d_links : l[1] = d_found[1].id}
    /\ d_pc' = "done"
    /\ d_result' = "ok"
    /\ UNCHANGED <<d_handler, d_in, d_names, d_links, d_found>>
    /\ UNCHANGED detail_rest

DetailNext ==
    \/ DetailRejected
    \/ DetailLookup
    \/ DetailNotFound
    \/ DetailRelated

SpecDetail == DetailInit /\ [][DetailNext]_vars

\* ================================================ merging duplicate moves
\* ids of moves rows are drawn from 1..MaxMoveId
MaxMoveId == 3

\* at most this many rows of pokemon_moves when the call starts
MaxRel == 2

\* SQL NULL, which Python passes as None
Null == "NULL"

MoveNames == {"a", "b"}

\* the key INSERT OR IGNORE compares on: no uniqueness constraint, or a
\* unique key over these columns of pokemon_moves
RelKeys == {"none", "pokemon_move", "pokemon_move_method"}

RelRows ==
    [pokemon_id : {1}, move_id : 1..MaxMoveId, learn_method : {"level", "tm"}]

MoveIds(moves) == {m.id : m \in moves}

\* SELECT id FROM moves WHERE name=? AND id<>?  (name = NULL matches no row)
Duplicates(moves, canonical, name) ==
    IF name = Null THEN {}
    ELSE {m.id : m \in {x \in moves : x.name = name /\ x.id # canonical}}

\* does the row collide with a stored one on the unique key
Conflicts(rel, row, key) ==
    CASE key = "none" -> FALSE
      [] key = "pokemon_move" ->
            \E i \in DOMAIN rel : /\ rel[i].pokemon_id = row.pokemon_id
                                  /\ rel[i].move_id = row.move_id
      [] key = "pokemon_move_method" ->
            \E i \in DOMAIN rel : rel[i] = row

\* INSERT OR IGNORE INTO pokemon_moves
InsertOrIgnore(rel, row, key) ==
    IF Conflicts(rel, row, key) THEN rel ELSE Append(rel, row)

\* SELECT ... FROM pokemon_moves WHERE move_id=?
RowsOfMove(rel, id) ==
    LET OfMove(r) == r.move_id = id IN SelectSeq(rel, OfMove)

\* DELETE FROM pokemon_moves WHERE move_id=?
DeleteRowsOfMove(rel, id) ==
    LET Other(r) == r.move_id # id IN SelectSeq(rel, Other)

\* the inner loop: each fetched relation is inserted again for the canonical id
RECURSIVE Migrate(_, _, _, _)
Migrate(rel, rows, canonical, key) ==
    IF rows = << >> THEN rel
    ELSE Migrate(InsertOrIgnore(rel, [Head(rows) EXCEPT !.move_id = canonical],
                                key),
                 Tail(rows), canonical, key)

\* a merge that leaves the duplicate's relations in place
MergeOne_KeepRelations(store, dup, canonical, key) ==
    [moves |-> {m \in store.moves : m.id # dup},
     rel |-> Migrate(store.rel, RowsOfMove(store.rel, dup), canonical, key)]

\* one round of the outer loop: migrate, delete the relations, delete the row
MergeOne(store, dup, canonical, key) ==
    [moves |-> {m \in store.moves : m.id # dup},
     rel |-> DeleteRowsOfMove(
                 Migrate(store.rel, RowsOfMove(store.rel, dup), canonical, key),
                 dup)]

RECURSIVE MergeLoop(_, _, _, _)
MergeLoop(store, dups, canonical, key) ==
    IF dups = {} THEN store
    ELSE LET dup == CHOOSE d \in dups : \A e \in dups : d <= e
         IN MergeLoop(MergeOne(store, dup, canonical, key), dups \ {dup},
                      canonical, key)

merge_move_duplicates_by_name(store, canonical, name, key) ==
    MergeLoop(store, Duplicates(store.moves, canonical, name), canonical, key)

\* does UPDATE moves SET name=?, ... WHERE id=? raise IntegrityError
UpdateRaises(moves, id, name, schema) ==
    /\ id \in MoveIds(moves)
    /\ \/ schema.other_conflict
       \/ /\ schema.name_unique
          /\ name # Null
          /\ \E m \in moves : m.id # id /\ m.name = name

\* the rows of moves after the UPDATE
Updated(moves, id, name) ==
    {IF m.id = id THEN [m EXCEPT !.name = name] ELSE m : m \in moves}

\* names are unique where the schema says so, and so are relations
StoreObeys(moves, rel, schema) ==
    /\ \A m, n \in moves : m.id = n.id => m = n
    /\ schema.name_unique =>
          \A m, n \in moves : (m.name = n.name /\ m.name # Null) => m = n
    /\ \A i \in DOMAIN rel :
          /\ rel[i].move_id \in MoveIds(moves)
          /\ ~Conflicts(SubSeq(rel, 1, i - 1), rel[i], schema.rel_key)

\* the rows of a set of relations in rowid order (by move, then by method)
RowIndex(r) == 2 * r.move_id + (IF r.learn_method = "level" THEN 0 ELSE 1)

RECURSIVE InRowidOrder(_)
InRowidOrder(rows) ==
    IF rows = {} THEN << >>
    ELSE LET first == CHOOSE r \in rows :
                          \A s \in rows : RowIndex(r) <= RowIndex(s)
         IN <<first>> \o InRowidOrder(rows \ {first})

\* a store the scraper has filled, and a call of one of the two functions:
\* merge_move_duplicates_by_name(conn, id, name) or
\* update_move_record_cloud(conn, id, data) with data.get("name") = name
MergeInit ==
    /\ MainIdle
    /\ RunIdle
    /\ QueryIdle
    /\ CapIdle
    /\ ReachIdle
    /\ IsoIdle
    /\ ArgsIdle
    /\ ParamsIdle
    /\ SortIdle
    /\ PageIdle
    /\ DetailIdle
    /\ m_pc = "start"
    /\ m_op \in {"merge", "update"}
    /\ m_schema \in [rel_key : RelKeys, name_unique : BOOLEAN,
                     other_conflict : BOOLEAN]
    /\ m_op = "merge" => ~m_schema.other_conflict
    /\ m_arg \in [id : 1..(MaxMoveId + 1), name : MoveNames \cup {Null}]
    /\ m_op = "merge" => m_arg.name # Null   \* the parameter is a str
    /\ \E names \in [1..MaxMoveId -> MoveNames \cup {Null}] :
          m_moves = {[id |-> i, name |-> names[i]] : i \in 1..MaxMoveId}
    /\ \E rows \in SUBSET RelRows :
          /\ Cardinality(rows) <= MaxRel
          /\ m_rel = InRowidOrder(rows)
    /\ StoreObeys(m_moves, m_rel, m_schema)
    /\ m_moves0 = m_moves
    /\ m_rel0 = m_rel
    /\ m_log = << >>
    /\ m_result = "none"

\* merge_move_duplicates_by_name called on its own
MergeCall ==
    /\ m_pc = "start"
    /\ m_op = "merge"
    /\ LET after == merge_move_duplicates_by_name(
                        [moves |-> m_moves, rel |-> m_rel],
                        m_arg.id, m_arg.name, m_schema.rel_key)
       IN /\ m_moves' = after.moves
          /\ m_rel' = after.rel
    /\ m_log' = Append(m_log, "merge")
    /\ m_pc' = "done"
    /\ m_result' = "returned"
    /\ UNCHANGED <<m_op, m_schema, m_arg, m_moves0, m_rel0>>
    /\ UNCHANGED merge_rest

\* try: do_update(); return
UpdateFirstOk ==
    /\ m_pc = "start"
    /\ m_op = "update"
    /\ ~UpdateRaises(m_moves, m_arg.id, m_arg.name, m_schema)
    /\ m_moves' = Updated(m_moves, m_arg.id, m_arg.name)
    /\ m_log' = Append(m_log, "update ok")
    /\ m_pc' = "done"
    /\ m_result' = "returned"
    /\ UNCHANGED <<m_op, m_schema, m_arg, m_rel, m_moves0, m_rel0>>
    /\ UNCHANGED merge_rest

\* except sqlite3.IntegrityError
UpdateFirstRaises ==
    /\ m_pc = "start"
    /\ m_op = "update"
    /\ UpdateRaises(m_moves, m_arg.id, m_arg.name, m_schema)
    /\ m_log' = Append(m_log, "update raises")
    /\ m_pc' = "caught"
    /\ UNCHANGED <<m_op, m_schema, m_arg, m_moves, m_rel, m_moves0, m_rel0,
                   m_result>>
    /\ UNCHANGED merge_rest

\* if data.get("name"): merge_move_duplicates_by_name(conn, move_id, name)
UpdateMerge ==
    /\ m_pc = "caught"
    /\ m_arg.name # Null
    /\ LET after == merge_move_duplicates_by_name(
                        [moves |-> m_moves, rel |-> m_rel],
                        m_arg.id, m_arg.name, m_schema.rel_key)
       IN /\ m_moves' = after.moves
          /\ m_rel' = after.rel
    /\ m_log' = Append(m_log, "merge")
    /\ m_pc' = "retry"
    /\ UNCHANGED <<m_op, m_schema, m_arg, m_moves0, m_rel0, m_result>>
    /\ UNCHANGED merge_rest

\* data has no name: the merge is skipped
UpdateNoMerge ==
    /\ m_pc = "caught"
    /\ m_arg.name = Null
    /\ m_pc' = "retry"
    /\ UNCHANGED <<m_op, m_schema, m_arg, m_moves, m_rel, m_moves0, m_rel0,
                   m_log, m_result>>
    /\ UNCHANGED merge_rest

\* the do_update() of the except clause succeeds
UpdateRetryOk ==
    /\ m_pc = "retry"
    /\ ~UpdateRaises(m_moves, m_arg.id, m_arg.name, m_schema)
    /\ m_moves' = Updated(m_moves, m_arg.id, m_arg.name)
    /\ m_log' = Append(m_log, "update ok")
    /\ m_pc' = "done"
    /\ m_result' = "returned"
    /\ UNCHANGED <<m_op, m_schema, m_arg, m_rel, m_moves0, m_rel0>>
    /\ UNCHANGED merge_rest

\* the do_update() of the except clause raises: nothing catches it
UpdateRetryRaises ==
    /\ m_pc = "retry"
    /\ UpdateRaises(m_moves, m_arg.id, m_arg.name, m_schema)
    /\ m_log' = Append(m_log, "update raises")
    /\ m_pc' = "done"
    /\ m_result' = "IntegrityError"
    /\ UNCHANGED <<m_op, m_schema, m_arg, m_moves, m_rel, m_moves0, m_rel0>>
    /\ UNCHANGED merge_rest

MergeNext ==
    \/ MergeCall
    \/ UpdateFirstOk
    \/ UpdateFirstRaises
    \/ UpdateMerge
    \/ UpdateNoMerge
    \/ UpdateRetryOk
    \/ UpdateRetryRaises

SpecMerge == MergeInit /\ [][MergeNext]_vars

\* ================================================================= claims
SupReturned == sup_pc = "done"

\* the worker function ran to its end without being killed or crashing
WorkerUnharmed == w_exit \notin {"killed", "crash"}

\* the error text of an outcome starts with "timeout"
StartsWithTimeout(out) ==
    /\ "error" \in DOMAIN out
    /\ Len(out.error) > 0
    /\ out.error[1] = "timeout after "

\* C1: a message the worker put on the queue before timeout_sec elapsed is
\* the outcome the supervisor returns, whatever its size: here for a message
\* larger than the pipe, which the feeder wrote as far as the pipe takes it
\* before timeout_sec elapsed.
C1_InTimeMessageIsReturned ==
    (/\ SupReturned
     /\ put_in_time
     /\ WorkerUnharmed
     /\ Picklable(put_msg[1])
     /\ PickledSize(put_msg[1]) > PipeCap
     /\ full_in_time)
        => outcome = <<Relay(put_msg[1])>>

\* C2: when the snippet is still running at the moment join(timeout_sec)
\* returns, the outcome is the timeout outcome and carries no result, also
\* when the worker then completes a transferable success message (and
\* nothing but the supervisor ends the worker).
C2_LateSnippetYieldsTimeout ==
    (/\ SupReturned
     /\ join_wpc \in {"spawned", "running"}
     /\ WorkerUnharmed
     /\ puts = 1 /\ put_msg[1].ok /\ Picklable(put_msg[1]))
        => (StartsWithTimeout(outcome[1]) /\ outcome[1].result = None)

\* C3: once terminate() is issued the supervisor only waits the grace period
\* and returns exactly the timeout outcome; it never reads the queue.
C3_TerminateYieldsTimeoutOnly ==
    term_sent =>
        /\ sup_pc \in {"grace", "done"}
        /\ recvd = 0
        /\ SupReturned =>
             outcome = <<[result |-> None, stdout |-> << >>,
                          error |-> <<"timeout after ", ToString(timeout_sec), "s">>]>>

\* C3 witness: returned after terminate() with an unread message in the pipe
C3_Witness ==
    /\ term_sent
    /\ SupReturned
    /\ puts = 1
    /\ pipe > 0

\* C4 as claimed: the no-result outcome is returned when the worker is dead
\* and the queue empty, and only when no message reached the queue.
C4_NoResultOnlyWithoutMessage ==
    /\ (SupReturned /\ ~term_sent /\ flushed = 0)
          => outcome = <<[result |-> None, stdout |-> << >>,
                          error |-> <<"no result (crash or empty output)">>]>>
    /\ (SupReturned /\ outcome = <<[result |-> None, stdout |-> << >>,
                          error |-> <<"no result (crash or empty output)">>]>>)
          => flushed = 0

\* C4 amended: the no-result outcome is returned when the worker is dead and
\* the queue empty, and the supervisor synthesizes it (q.empty() was True)
\* only when the worker is dead and nothing of a message reached the queue.
C4_NoResultSynthesizedOnlyWithoutMessage ==
    /\ (SupReturned /\ ~term_sent /\ flushed = 0)
          => outcome = <<[result |-> None, stdout |-> << >>,
                          error |-> <<"no result (crash or empty output)">>]>>
    /\ saw_empty => (flushed = 0 /\ w_pc = "dead" /\ ~term_sent /\ recvd = 0)
    /\ (SupReturned /\ ~term_sent /\ ~saw_empty) => flushed > 0

\* C4 witness: the worker enqueued a message that could not be pickled,
\* exited, and the supervisor returned the no-result outcome
C4_Witness ==
    /\ SupReturned
    /\ saw_empty
    /\ puts = 1
    /\ w_exit = "normal"
    /\ outcome[1].error = <<"no result (crash or empty output)">>

\* C5: a failure message (snippet error or store unavailable) the worker put
\* in time is relayed: error is its text unchanged, result null, stdout "".
C5_FailureTextIsRelayed ==
    (/\ SupReturned
     /\ put_in_time
     /\ WorkerUnharmed
     /\ ~put_msg[1].ok
     /\ put_msg[1].error # PutFailedText)
        => outcome = <<[result |-> None, stdout |-> << >>,
                        error |-> put_msg[1].error]>>

\* the invocation did not end by relaying a success message
InvocationFailed == ~(recvd > 0 /\ pipe_msg # << >> /\ pipe_msg[1].ok)

\* error is present and non-empty
ErrorSet(out) == "error" \in DOMAIN out /\ Len(out.error) > 0

\* C6: every failed invocation has error set (present and non-empty), as
\* returned by the supervisor and as forwarded by run_code_handler.
C6_FailureHasErrorSet ==
    /\ (SupReturned /\ InvocationFailed) => ErrorSet(outcome[1])
    /\ (h_pc = "done" /\ InvocationFailed) => ErrorSet(response[1])

\* C7: run_user_code_with_timeout never raises, and what it returns has the
\* keys result and stdout, plus error on failure.
C7_NeverRaises ==
    /\ sup_pc # "raised"
    /\ SupReturned =>
         /\ {"result", "stdout"} \subseteq DOMAIN outcome[1]
         /\ InvocationFailed => "error" \in DOMAIN outcome[1]

\* C8: the supervisor is never blocked for good: until it returns, one of its
\* steps can be taken or one of its bounded waits is running out.
C8_SupervisorNeverBlocked ==
    sup_pc \in {"done", "raised"} \/ ENABLED SupStep

\* C9 as claimed: the worker places at most one message on the queue: none
\* when it crashes before putting or when its message cannot be pickled,
\* exactly one when _worker_run_code runs to its end, also when its first put
\* raised and the except branch put the failure message.
C9_ExactlyOneUnlessCrashed ==
    /\ puts <= 1
    /\ placed <= puts
    /\ Len(buffer) + Len(wire) <= 1
    /\ w_exit = "crash" => puts = 0
    /\ (w_pc = "dead" /\ w_exit = "normal") => puts = 1
    /\ (w_pc = "dead" /\ w_exit = "normal" /\ Picklable(put_msg[1]))
          => (placed = 1 /\ flushed = PickledSize(put_msg[1]))
    /\ (puts = 1 /\ ~Picklable(put_msg[1])) => (placed = 0 /\ flushed = 0)

\* C9 amended: the worker places at most one message on the queue: none when
\* it crashes before putting, when its message cannot be pickled, or when its
\* first put raised (the failure message the except branch then puts stays
\* in the buffer, no feeder thread takes it, and it is lost at exit); exactly
\* one when _worker_run_code runs to its end with the feeder thread started.
C9_AtMostOneMessage ==
    /\ puts <= 1
    /\ placed <= puts
    /\ Len(buffer) + Len(wire) <= 1
    /\ w_exit = "crash" => puts = 0
    /\ (w_pc = "dead" /\ w_exit = "normal") => puts = 1
    /\ (w_pc = "dead" /\ w_exit = "normal" /\ Picklable(put_msg[1])
           /\ feeder = "running")
          => (placed = 1 /\ flushed = PickledSize(put_msg[1]))
    /\ (puts = 1 /\ (~Picklable(put_msg[1]) \/ feeder = "failed"))
          => (placed = 0 /\ flushed = 0)

\* C9 witness: the first put raised, the except branch put the failure
\* message, and the worker exited with the message never taken
C9_Witness ==
    /\ w_pc = "dead"
    /\ w_exit = "normal"
    /\ snippet_ran
    /\ w_err = PutFailedText
    /\ feeder = "failed"
    /\ puts = 1
    /\ put_msg[1] = ErrMsg(PutFailedText)
    /\ placed = 0

\* C10: when run_user_code_with_timeout returns, its worker is not running.
C10_WorkerGoneAtReturn ==
    SupReturned => ~WorkerAlive

\* C16: when the store cannot be opened read-only, no statement of the
\* snippet is executed, and the invocation ends with an outcome that has
\* error set, result null and stdout "", as returned by the supervisor and
\* as forwarded by run_code_handler: neither of them ends by raising.
C16_StoreUnavailableIsAnError ==
    ~db_ok =>
        /\ ~snippet_ran
        /\ w_pc # "running"
        /\ sup_pc # "raised"
        /\ h_pc # "raised"
        /\ SupReturned =>
              /\ ErrorSet(outcome[1])
              /\ outcome[1].result = None
              /\ outcome[1].stdout = << >>
        /\ h_pc = "done" =>
              /\ ErrorSet(response[1])
              /\ response[1].result = None
              /\ response[1].stdout = << >>

\* C20: a snippet that completes yields the outcome made of what
\* run_user_code returned for it: stdout is what it printed, result is the
\* value bound to result when it ended (null when it was never assigned or
\* was deleted), and there is no error; here for a snippet whose worker put
\* its success message before timeout_sec elapsed, a message that can be
\* pickled and that the feeder wrote as far as the pipe takes it before
\* timeout_sec elapsed, with nothing but the supervisor ending the worker.
C20_ResultIsLastAssigned ==
    (/\ SupReturned
     /\ snippet_out # << >>
     /\ put_in_time
     /\ full_in_time
     /\ WorkerUnharmed
     /\ put_msg[1].ok
     /\ Picklable(put_msg[1]))
        => outcome = <<[stdout |-> snippet_out[1].stdout,
                        result |-> snippet_out[1].result]>>

\* ---------------------------------------------- claims about run_user_code
RunOver == r_pc \in {"returned", "raised"}

\* names of env whose value gives access to the store handle
HandleNames(env) == {n \in DOMAIN env : env[n] \in {"connection", "helper"}}

\* C12: whatever statements the snippet submitted through the handle, the
\* store's contents after the invocation equal its contents before it (here
\* for a handle that got both protections from _open_ro_conn).
C12_StoreUnchanged ==
    (RunOver /\ r_pragma_ok) => r_store = r_store0

\* C13: while the snippet executes, its handle has query-only enforcement on
\* (here: after the PRAGMA of _open_ro_conn succeeded).
C13_QueryOnlyStaysOn ==
    (r_pc = "exec" /\ r_pragma_ok) => (r_conn.open /\ r_conn.query_only)

\* C14: sql and scalar are the only names of the environment that give
\* access to the store handle.
C14_ExactlyTwoDataAccessNames ==
    r_pc = "exec" => HandleNames(r_env) = {"sql", "scalar"}

\* --------------------------------------------- claims about sql and scalar
\* the columns whose name occurs at no earlier position
FirstOfName(cols) ==
    {i \in DOMAIN cols : \A j \in DOMAIN cols : cols[j] = cols[i] => i <= j}

\* C17: scalar returns null for an empty result set, the bare value of the
\* first row's only column when one column is projected, and the first row's
\* column-name-to-value mapping when several are; later rows play no part.
C17_ScalarShape ==
    scalar_ret # << >> =>
        /\ cur_rows = << >> => scalar_ret[1] = [type |-> "NoneType"]
        /\ (cur_rows # << >> /\ Len(cur_cols) = 1) =>
              scalar_ret[1] =
                  IF cur_rows[1][1] = None
                  THEN [type |-> "NoneType"]
                  ELSE [type |-> "value", value |-> cur_rows[1][1]]
        /\ (cur_rows # << >> /\ Len(cur_cols) > 1) =>
              /\ scalar_ret[1].type = "dict"
              /\ DOMAIN scalar_ret[1].value = {cur_cols[i] : i \in DOMAIN cur_cols}
              /\ \A i \in FirstOfName(cur_cols) :
                    scalar_ret[1].value[cur_cols[i]] = cur_rows[1][i]

\* C17 witness: several rows that differ, several columns, scalar called
C17_Witness ==
    /\ scalar_ret # << >>
    /\ Len(cur_rows) = 2
    /\ cur_rows[1] # cur_rows[2]
    /\ cur_cols = <<"a", "b">>

\* C18: sql returns one mapping per row, in the order the store yields the
\* rows, and each mapping's key set is the set of projected column names.
C18_SqlRowsInOrder ==
    sql_ret # << >> =>
        /\ Len(sql_ret[1]) = Len(cur_rows)
        /\ \A k \in 1..Len(cur_rows) :
              /\ DOMAIN sql_ret[1][k] = {cur_cols[i] : i \in DOMAIN cur_cols}
              /\ \A i \in FirstOfName(cur_cols) :
                    sql_ret[1][k][cur_cols[i]] = cur_rows[k][i]

\* C18 witness: two rows that differ, returned by sql
C18_Witness ==
    /\ sql_ret # << >>
    /\ Len(cur_rows) = 2
    /\ cur_rows[1] # cur_rows[2]
    /\ Len(sql_ret[1]) = 2

\* ------------------------------------------- claims about the stdout cap
\* C19: the stdout of a successful outcome is the prefix of the captured
\* output of length min(n, 10000), n the captured length, and no outcome
\* carries a stdout of more than 10000 characters.
C19_StdoutIsCappedPrefix ==
    cap_outcome # << >> =>
        /\ Len(cap_outcome[1].stdout) <= 10000
        /\ (cap_msg # << >> /\ cap_msg[1].ok /\ cap_outcome[1] = cap_msg[1].data) =>
              /\ Len(cap_outcome[1].stdout) =
                    IF Len(cap_text) < 10000 THEN Len(cap_text) ELSE 10000
              /\ \A i \in 1..Len(cap_outcome[1].stdout) :
                    cap_outcome[1].stdout[i] = cap_text[i]

\* C19 witness: more than 10000 characters were captured and the outcome of
\* the successful invocation carries exactly 10000
C19_Witness ==
    /\ cap_outcome # << >>
    /\ cap_msg # << >>
    /\ cap_msg[1].ok
    /\ cap_outcome[1] = cap_msg[1].data
    /\ Len(cap_text) > 10000
    /\ Len(cap_outcome[1].stdout) = 10000

\* --------------------------------- claims about the snippet's namespace
\* C15: no expression that starts from a name of env and follows attribute
\* access, item access and calls denotes an object that gives filesystem
\* access, network access, process spawning, dynamic import or reflection
\* into the host program.
C15_NoCapabilityReachable == rc_obj \notin Withheld

\* ------------------------------------------ claims about two invocations
\* C11: of two invocations run back-to-back or concurrently on one store,
\* each caller receives the outcome its invocation would produce if it ran
\* alone on that store.
C11_OutcomeAsIfAlone ==
    \A i \in DOMAIN iso_pc :
        iso_pc[i] = "returned" =>
            iso_outcome[i] = <<Alone(iso_code[i], iso_store0)>>

\* ------------------------------------------- claims about the args mapping
\* C21: the mapping the caller passed as args has, when the call returns on
\* any path, the contents it had when the call was made, whatever the
\* snippet did to the args it sees.
C21_CallerArgsUnchanged ==
    (a_pc \in {"exec", "returned"} /\ a_caller # 0) =>
        a_heap[a_caller] = a_caller0

\* C21 witness: the snippet changed the args it sees and the call returned
C21_Witness ==
    /\ a_pc = "returned"
    /\ a_caller # 0
    /\ a_caller0 # << >>
    /\ a_heap[a_seen] # a_caller0

\* C22: every outcome that carries an error has a null result and the empty
\* stdout, whatever the snippet printed or bound to result before it failed.
C22_ErrorOutcomeIsBare ==
    (cap_outcome # << >> /\ "error" \in DOMAIN cap_outcome[1]) =>
        /\ cap_outcome[1].result = None
        /\ cap_outcome[1].stdout = << >>

\* C22 witness: the snippet printed, bound result and then raised, and the
\* failure was relayed
C22_Witness ==
    /\ cap_outcome # << >>
    /\ cap_msg # << >>
    /\ ~cap_msg[1].ok
    /\ "error" \in DOMAIN cap_outcome[1]
    /\ cap_text # << >>
    /\ cap_result = "2"

\* C23: the result of every outcome returned without an error is a value
\* JSON can serialize, or null.
C23_ResultIsJson ==
    (cap_outcome # << >> /\ "error" \notin DOMAIN cap_outcome[1]) =>
        JsonSerializable(cap_outcome[1].result)

\* ----------------------------------- claims about the handle's lifetime
\* C24: once the handle is opened the snippet is executed exactly once; the
\* handle is not closed while the snippet runs, and conn.close() has been
\* called exactly once when run_user_code returns its result or lets the
\* snippet's error out; a close that fails changes neither.
C24_ClosedOnBothPaths ==
    /\ r_pc = "exec" => (r_execs = 1 /\ r_closes = 0 /\ r_conn.open)
    /\ (RunOver /\ r_execs > 0) =>
          /\ r_execs = 1
          /\ r_closes = 1
          /\ r_close_ok => ~r_conn.open
          /\ r_pc = "returned" => (r_out # << >> /\ r_err = << >>)
          /\ r_pc = "raised" =>
                /\ r_out = << >>
                /\ r_err \in {<<"boom">>,
                              <<"attempt to write a readonly database">>,
                              <<"database w is already in use">>,
                              <<"no such table: w.items">>,
                              <<"cannot commit - no transaction is active">>,
                              <<"database is locked">>}

\* C24 witness: the snippet raised and the close in the finally clause failed
C24_Witness ==
    /\ r_pc = "raised"
    /\ r_execs = 1
    /\ r_closes = 1
    /\ ~r_close_ok
    /\ r_err = <<"boom">>

\* ------------------------------------------------ claims about params
\* C25: sql and scalar hand conn.execute a list or tuple params as it is and
\* any other value as the one-element tuple holding it, so the parameters are
\* always a positional sequence and both helpers bind the same ones.
C25_ParamsNormalised ==
    /\ \A b \in {p_sql, p_scalar} :
          b # << >> =>
              /\ b[1].type \in {"list", "tuple"}
              /\ p_params.type \in {"list", "tuple"} => b[1] = p_params
              /\ p_params.type \notin {"list", "tuple"} =>
                    /\ b[1].type = "tuple"
                    /\ Len(b[1].items) = 1
                    /\ b[1].items[1] = p_params
    /\ (p_sql # << >> /\ p_scalar # << >>) => p_sql = p_scalar

\* C25 witness: both helpers were called with a list of two parameters
C25_Witness ==
    /\ p_sql # << >>
    /\ p_scalar # << >>
    /\ p_params.type = "list"
    /\ Len(p_params.items) = 2

\* ------------------------------------------------- claims about sorting
\* the key and the direction a sort string asks for
SortKey(raw) == IF raw # << >> /\ raw[1] = "-" THEN SubSeq(raw, 2, Len(raw)) ELSE raw
SortDir(raw) == IF raw # << >> /\ raw[1] = "-" THEN "DESC" ELSE "ASC"

\* the text of the clauses for sort[i..]: key, space, direction, joined by ", "
RECURSIVE ClausesFrom(_, _)
ClausesFrom(sort, i) ==
    IF i > Len(sort) THEN << >>
    ELSE (IF i > 1 THEN <<", ">> ELSE << >>)
         \o SortKey(sort[i]) \o <<" ", SortDir(sort[i])>>
         \o ClausesFrom(sort, i + 1)

AllKeysAllowed ==
    \A i \in DOMAIN s_sort.list :
        \E j \in DOMAIN s_allowed : s_allowed[j] = SortKey(s_sort.list[i])

\* what a finished request did, as far as the sort list decides it
SortOutcome ==
    /\ (s_sort.list = << >>) => (s_status = 200 /\ s_order = << << >> >>)
    /\ (s_sort.list # << >> /\ AllKeysAllowed) =>
          /\ s_status = 200
          /\ s_order = << <<" ORDER BY ">> \o ClausesFrom(s_sort.list, 1) >>
    /\ (s_sort.list # << >> /\ ~AllKeysAllowed) =>
          /\ s_status = 400
          /\ s_order = << >>

\* C26 as claimed: ... or a ValueError is raised, surfaced as HTTP 400, and no
\* query is run.
C26_RejectedSortRunsNoQuery ==
    s_pc = "done" =>
        /\ SortOutcome
        /\ s_status = 400 => s_queries = << >>

\* C26 amended: for every sort list, either every key (after stripping one
\* leading "-") is allowed and the clause is " ORDER BY " followed by the keys
\* in input order, DESC for "-"-prefixed keys and ASC otherwise, or the
\* request ends with HTTP 400 and the search statement is not run (the lookup
\* of the table's columns has run before); an empty or missing list yields
\* the empty string.
C26_RejectedSortRunsNoSearch ==
    s_pc = "done" =>
        /\ SortOutcome
        /\ s_status = 400 => (\A i \in DOMAIN s_queries : s_queries[i] # "search")
        /\ s_status = 200 => s_queries[Len(s_queries)] = "search"

\* C26 witness: a two-key list, the second descending, was accepted
C26_Witness ==
    /\ s_pc = "done"
    /\ s_status = 200
    /\ s_sort.list = << <<"name">>, <<"-", "dps">> >>
    /\ s_order = << <<" ORDER BY ", "name", " ", "ASC", ", ", "dps", " ", "DESC">> >>

\* ---------------------------------------- claims about limit and offset
\* C27: the limit and offset bound into the query are never negative: a
\* negative value becomes 0, a missing or zero offset is 0, a missing or zero
\* limit is the default 10; the response echoes the values bound.
C27_LimitOffsetClamped ==
    pg_pc = "done" =>
        /\ pg_bound[1].limit >= 0
        /\ pg_bound[1].offset >= 0
        /\ \A f \in {"limit", "offset"} :
              (pg_in[f].given /\ pg_in[f].value < 0) => pg_bound[1][f] = 0
        /\ (~pg_in.offset.given \/ pg_in.offset.value = 0) =>
              pg_bound[1].offset = 0
        /\ (~pg_in.limit.given \/ pg_in.limit.value = 0) =>
              pg_bound[1].limit = 10
        /\ pg_echo = pg_bound

\* C27 witness: a request with a negative limit and no offset was answered
C27_Witness ==
    /\ pg_pc = "done"
    /\ pg_in.limit.given
    /\ pg_in.limit.value < 0
    /\ ~pg_in.offset.given
    /\ pg_echo[1] = [limit |-> 0, offset |-> 0]

\* ------------------------------------- claims about the detail handlers
\* the lookups and the queries of related rows among the statements executed
LookupsRun == {i \in DOMAIN d_queries : d_queries[i].by \in {"id", "name"}}
RelatedRun == {i \in DOMAIN d_queries : d_queries[i].by = "related"}

\* C28: with neither id nor name given (0 and "" count as not given) the
\* handler raises ValueError before any query; with id given the lookup is by
\* id and name is ignored; when the row looked up does not exist the handler
\* raises 404 and queries no related rows; otherwise the related rows it
\* returns all belong to the id of the row found.
C28_DetailLookup ==
    d_pc = "done" =>
        /\ ((~d_in.id.given \/ d_in.id.value = 0)
               /\ (~d_in.name.given \/ d_in.name.value = "")) =>
              (d_result = "ValueError" /\ d_queries = << >>)
        /\ (d_in.id.given /\ d_in.id.value # 0) =>
              /\ d_result # "ValueError"
              /\ \A i \in LookupsRun :
                    d_queries[i] = [by |-> "id", id |-> d_in.id.value]
              /\ Cardinality(LookupsRun) = 1
              /\ d_result = "404" <=> d_in.id.value \notin DOMAIN d_names
        /\ d_result = "404" => (d_found = << >> /\ RelatedRun = {})
        /\ d_result = "ok" =>
              /\ d_found # << >>
              /\ \A l \in d_related : l[1] = d_found[1].id /\ l \in d_links

\* C28 witness: id and name given for different rows; the row of the id was
\* found and it has related rows
C28_Witness ==
    /\ d_pc = "done"
    /\ d_result = "ok"
    /\ d_in.id.given
    /\ d_in.name.given
    /\ d_found[1].name # d_in.name.value
    /\ d_in.name.value \in {d_names[i] : i \in DOMAIN d_names}
    /\ d_related # {}
    /\ d_related # d_links

\* ------------------------------------ claims about merging duplicate moves
\* the merge has just returned
MergeReturned == m_log # << >> /\ m_log[Len(m_log)] = "merge"

Deleted == MoveIds(m_moves0) \ MoveIds(m_moves)

Updates == {i \in DOMAIN m_log : m_log[i] \in {"update ok", "update raises"}}

\* what the merge leaves of the rows of the given name, and of the canonical row
MergedAway ==
    MergeReturned =>
        /\ \A m \in m_moves : m.id # m_arg.id => m.name # m_arg.name
        /\ \A i \in DOMAIN m_rel : m_rel[i].move_id \notin Deleted
        /\ \A m \in m_moves0 : m.id = m_arg.id => m \in m_moves

\* update_move_record_cloud merges only after a first UPDATE that raised, and
\* then updates exactly once more; a second failure propagates
MergeOnlyOnConflict ==
    /\ \A i \in DOMAIN m_log :
          m_log[i] = "merge" /\ m_op = "update" =>
              (i = 2 /\ m_log[1] = "update raises")
    /\ Cardinality(Updates) <= 2
    /\ (m_pc = "done" /\ m_op = "update") =>
          /\ m_log[1] = "update ok" => (Len(m_log) = 1 /\ m_result = "returned")
          /\ m_log[1] = "update raises" => Cardinality(Updates) = 2
          /\ m_result = "IntegrityError" <=>
                (Cardinality(Updates) = 2
                    /\ m_log[Len(m_log)] = "update raises")

\* C29 as stated: after the merge no other row of moves has the name, no row
\* of pokemon_moves references a deleted duplicate, the canonical row still
\* exists, and every moves row of another name keeps its relations; the update
\* merges only after its first UPDATE raised and retries exactly once.
C29_MergeLeavesOtherNamesAlone ==
    /\ MergedAway
    /\ MergeOnlyOnConflict
    /\ MergeReturned =>
          \A m \in m_moves0 : m.name # m_arg.name =>
              /\ m \in m_moves
              /\ RowsOfMove(m_rel, m.id) = RowsOfMove(m_rel0, m.id)

\* C29 amended: as above, with the rows of other names that keep their
\* relations being those other than the canonical row, which receives the
\* relations of the duplicates whatever its own name is.
C29_MergeLeavesOtherRowsAlone ==
    /\ MergedAway
    /\ MergeOnlyOnConflict
    /\ MergeReturned =>
          \A m \in m_moves0 : m.name # m_arg.name =>
              /\ m \in m_moves
              /\ m.id # m_arg.id =>
                    RowsOfMove(m_rel, m.id) = RowsOfMove(m_rel0, m.id)

\* C29 witness: the update raised, the merge deleted a duplicate that had
\* relations, a row of another name kept its own, and the retry succeeded
C29_Witness ==
    /\ m_op = "update"
    /\ m_pc = "done"
    /\ m_log = <<"update raises", "merge", "update ok">>
    /\ Deleted # {}
    /\ \E d \in Deleted : RowsOfMove(m_rel0, d) # << >>
    /\ \E m \in m_moves0 : /\ m.id # m_arg.id
                           /\ m.name # m_arg.name
                           /\ RowsOfMove(m_rel, m.id) # << >>

====
